---- MODULE Spec2Model ----
(***************************************************************************)
(* A model of pypdfproc's object resolver and content interpreter:         *)
(*   - the xref chain walk of PDFTokenizer.Initialize and PDF.MakeXRefMap   *)
(*   - the object cache of PDFTokenizer.GetObject / LoadObject              *)
(*   - the lazy attribute loading of PDFHigherBase.__getattr__              *)
(*   - the graphics/text state machine driven by PDF.RenderPage             *)
(* Each part has its own specification; the variables of the other parts    *)
(* stay at their initial values.                                            *)
(***************************************************************************)
EXTENDS Integers, Sequences, FiniteSets, TLC

VARIABLES
    \* ---- the xref chain (parser/__init__.py Initialize, pdf.py MakeXRefMap)
    file,        \* the xref sections of the file being read
    offset,      \* Initialize: the offset of the next xref section to parse
    contents,    \* PDF.contents, its integer (file offset) keys
    xnext,       \* XRef.next of each parsed section (None is 0)
    rootxref,    \* PDF.rootxref (None is 0)
    prevx,       \* Initialize: prevx (None is 0)
    objmap,      \* PDF.objmap
    mx,          \* MakeXRefMap: x (None is 0)
    ipc          \* where Initialize is: "walk", "map", "done", "fault"

VARIABLES
    \* ---- the object cache (parser/__init__.py GetObject, LoadObject)
    store,       \* what the file holds for each object key
    cache,       \* PDF.contents, its (object-id, generation) keys
    nrec,        \* how many records the handlers have constructed
    loads,       \* per key, how often LoadObject read the object from the file
    stored,      \* per key, how often GetObject stored a loaded record
    returned,    \* per key, the records GetObject has returned
    gret,        \* the outcome of the last GetObject call
    ncalls       \* GetObject calls made

VARIABLES
    \* ---- a lazily loaded record (pdf.py PDFHigherBase)
    lrec,        \* the record: its class and its underscore-prefixed raw values
    ldict,       \* the record's __dict__ entries without underscore
    lcalls,      \* per key, how often __getattr__ invoked the loader
    lreads,      \* per key, how often the attribute was read
    lret         \* the outcome of the last read

VARIABLES
    \* ---- rendering (__init__.py RenderPages / RenderPage, parser/state.py)
    doc,         \* the document rendered: its pages and their content streams
    rpc,         \* where RenderPages is
    pageno,      \* the place in the page list of the page being rendered
    stack,       \* StateManager.stack of the page being rendered
    texts,       \* the TextState objects, by address
    events,      \* the calls made to the callback
    ntok,        \* tokens of the page processed so far
    tok,         \* RenderPage: tok, the token processed last
    fault,       \* the exception raised while rendering the page ("none": none)
    inText,      \* whether the tokens so far leave a BT without its ET
    saved,       \* per pending q, the stack as it was when q copied its top
    restored,    \* the stack as it was at the q that the last Q undid
    pages        \* RenderPages: pages, the result of DFSPages

xvars == <<file, offset, contents, xnext, rootxref, prevx, objmap, mx, ipc>>

cvars == <<store, cache, nrec, loads, stored, returned, gret, ncalls>>

lvars == <<lrec, ldict, lcalls, lreads, lret>>

VARIABLES
    \* ---- calls of the functions that keep no state
    fin,         \* the function called and its arguments
    fout,        \* what it returned, or the exception it raised
    fpc          \* "call" before the call, "returned" or "raised" after it

fvars == <<fin, fout, fpc>>

rvars == <<doc, rpc, pageno, stack, texts, events, ntok, tok, fault, inText, saved,
           restored, pages>>

vars == <<xvars, cvars, lvars, rvars, fvars>>

None == 0

(***************************************************************************)
(* The file's xref sections.  A classic section sits at a byte offset, has *)
(* rows in ascending object-id order and is followed by its trailer, whose  *)
(* dictionary may hold Prev and which ends with that section's startxref.   *)
(***************************************************************************)
MaxSections == 2

Sections == 1..MaxSections

ObjIds == {1, 2}

Generations == {0, 1}

NoPrev == -1

\* What one section can say about one object id: no row, a free row, or an
\* in-use row of generation 0 or 1.
RowKinds(objid) ==
    IF objid = 1 THEN {"absent", "free", "n0", "n1"} ELSE {"absent", "n0"}

SectionKinds ==
    { k \in [ObjIds -> {"absent", "free", "n0", "n1"}] : \A id \in ObjIds : k[id] \in RowKinds(id) }

\* The byte offset a section's in-use row gives for an object: every copy of
\* an object lies at its own place in the file.
ObjOffset(sec, objid, gen) ==
    100 * sec + 10 * objid + gen

\* The place of the trailer that follows the xref section at sec
\* (file.tell() after the rows).
TrailerOffset(sec) ==
    1000 + sec

XRefRowUsed(objid, off, gen) ==
    [objid |-> objid, offset |-> off, generation |-> gen, inuse |-> TRUE]

XRefRowFree(objid, gen) ==
    [objid |-> objid, offset |-> 0, generation |-> gen, inuse |-> FALSE]

RECURSIVE RowsFrom(_, _, _)
\* Convert_XRef: one row object per row of the section, in file order.
RowsFrom(sec, kinds, id) ==
    IF id \notin ObjIds THEN <<>>
    ELSE LET rest == RowsFrom(sec, kinds, id + 1)
             k == kinds[id]
         IN  IF k = "absent" THEN rest
             ELSE IF k = "free" THEN <<XRefRowFree(id, 0)>> \o rest
             ELSE IF k = "n0" THEN <<XRefRowUsed(id, ObjOffset(sec, id, 0), 0)>> \o rest
             ELSE <<XRefRowUsed(id, ObjOffset(sec, id, 1), 1)>> \o rest

Convert_XRef(sec, kinds) ==
    RowsFrom(sec, kinds, 1)

\* The files read: where the final startxref points, each section's rows,
\* its trailer's Prev (NoPrev when the dictionary has none) and the startxref
\* written after its trailer, which names the section itself.
Files ==
    { [startxref |-> s,
       rows |-> [sec \in Sections |-> Convert_XRef(sec, k[sec])],
       prev |-> p,
       trailerstartxref |-> [sec \in Sections |-> sec]] :
        s \in Sections \cup {0},
        k \in [Sections -> SectionKinds],
        p \in [Sections -> {NoPrev, 0} \cup Sections] }

----------------------------------------------------------------------------
(* PDF.MakeXRefMap, pdf.py 47-82 *)

Key(me) ==
    <<me.objid, me.generation>>

\* A row handler that lets a later-visited section replace an entry.
AddRowOverwrite(map, me) ==
    IF ~me.inuse THEN map
    ELSE [p \in DOMAIN map \cup {Key(me)} |-> IF p = Key(me) THEN me.offset ELSE map[p]]

\* pdf.py 66-78: one row of the section's offsets.
AddRow(map, me) ==
    IF ~me.inuse THEN map
    ELSE IF Key(me) \in DOMAIN map THEN map
    ELSE [p \in DOMAIN map \cup {Key(me)} |-> IF p = Key(me) THEN me.offset ELSE map[p]]

RECURSIVE AddRows(_, _)
\* pdf.py 66: for me in x.offsets
AddRows(map, rows) ==
    IF rows = <<>> THEN map
    ELSE AddRows(AddRow(map, Head(rows)), Tail(rows))

EmptyMap ==
    [p \in {} |-> 0]

----------------------------------------------------------------------------
(* PDFTokenizer.Initialize, parser/__init__.py 67-179 *)

\* The object cache before any GetObject call.
CIdle ==
    /\ store = <<>>
    /\ cache = EmptyMap
    /\ nrec = 0
    /\ loads = <<>>
    /\ stored = <<>>
    /\ returned = <<>>
    /\ gret = [outcome |-> "none"]
    /\ ncalls = 0

\* No record is being read.
LIdle ==
    /\ lrec = [klass |-> "none"]
    /\ ldict = <<>>
    /\ lcalls = <<>>
    /\ lreads = <<>>
    /\ lret = [outcome |-> "none"]

\* Nothing is being rendered.
RIdle ==
    /\ doc = [pages |-> <<>>]
    /\ rpc = "idle"
    /\ pageno = 0
    /\ stack = <<>>
    /\ texts = <<>>
    /\ events = <<>>
    /\ ntok = 0
    /\ tok = [type |-> "none", value |-> <<>>]
    /\ fault = "none"
    /\ inText = FALSE
    /\ saved = <<>>
    /\ restored = <<>>
    /\ pages = <<>>

\* No function is being called.
FIdle ==
    /\ fin = [fn |-> "none"]
    /\ fout = <<>>
    /\ fpc = "idle"

XInit ==
    /\ FIdle
    /\ CIdle
    /\ LIdle
    /\ RIdle
    /\ file \in Files
    /\ offset = file.startxref
    /\ contents = {0}
    /\ xnext = [sec \in Sections |-> None]
    /\ rootxref = None
    /\ prevx = None
    /\ objmap = EmptyMap
    /\ mx = None
    /\ ipc = IF file.startxref = 0 THEN "map" ELSE "walk"

\* Lines 142-145: the next offset is the trailer's Prev or, without one, the
\* offset of the startxref that follows the trailer.
NextOffset(f, sec) ==
    IF f.prev[sec] # NoPrev THEN f.prev[sec] ELSE f.trailerstartxref[sec]

\* The loop of lines 117-172 without the test of lines 171-172.
InitializeSectionNoBreak ==
    /\ ipc = "walk"
    /\ offset # 0
    /\ LET x == offset
           nxt == NextOffset(file, x)
           cont == contents \cup {x, TrailerOffset(x)}
       IN  /\ contents' = cont
           /\ offset' = nxt
           /\ rootxref' = IF prevx = None THEN x ELSE rootxref
           /\ xnext' = IF prevx # None THEN [xnext EXCEPT ![prevx] = x] ELSE xnext
           /\ prevx' = x
           /\ ipc' = IF nxt = 0 THEN "map" ELSE "walk"
    /\ UNCHANGED <<file, objmap, mx>>
    /\ UNCHANGED <<cvars, lvars, rvars, fvars>>

\* One pass of the loop of lines 117-172, for the classic section at offset.
InitializeSection ==
    /\ ipc = "walk"
    /\ offset # 0
    /\ LET x == offset
           nxt == NextOffset(file, x)
           cont == contents \cup {x, TrailerOffset(x)}
       IN  /\ contents' = cont
           /\ offset' = nxt
           /\ rootxref' = IF prevx = None THEN x ELSE rootxref
           /\ xnext' = IF prevx # None THEN [xnext EXCEPT ![prevx] = x] ELSE xnext
           /\ prevx' = x
           /\ ipc' = IF nxt = 0 \/ (nxt > 0 /\ nxt \in cont) THEN "map" ELSE "walk"
    /\ UNCHANGED <<file, objmap, mx>>
    /\ UNCHANGED <<cvars, lvars, rvars, fvars>>

\* Line 175 and pdf.py 56-61: the call of MakeXRefMap, which resets the map
\* and reads rootxref.trailer (a fault when no section was read).
MakeXRefMapBegin ==
    /\ ipc = "map"
    /\ objmap' = EmptyMap
    /\ mx' = rootxref
    /\ ipc' = IF rootxref = None THEN "fault" ELSE "mapping"
    /\ UNCHANGED <<file, offset, contents, xnext, rootxref, prevx>>
    /\ UNCHANGED <<cvars, lvars, rvars, fvars>>

\* pdf.py 64-82: one pass of the while loop, for section x.
MakeXRefMapSection ==
    /\ ipc = "mapping"
    /\ mx # None
    /\ objmap' = AddRows(objmap, file.rows[mx])
    /\ mx' = xnext[mx]
    /\ ipc' = IF xnext[mx] = None THEN "done" ELSE "mapping"
    /\ UNCHANGED <<file, offset, contents, xnext, rootxref, prevx>>
    /\ UNCHANGED <<cvars, lvars, rvars, fvars>>

XNext ==
    \/ InitializeSection
    \/ MakeXRefMapBegin
    \/ MakeXRefMapSection

SpecXRef ==
    XInit /\ [][XNext]_vars

\* Initialize is straight-line code around one loop: a pass that can run
\* does run.
SpecXRefLive ==
    XInit /\ [][XNext]_vars /\ WF_vars(XNext)

RECURSIVE PrevChain(_, _)
\* The sections of the file in walk order: from the final startxref along
\* Prev, until there is no Prev, Prev is 0, or a section comes up again.
PrevChain(off, seen) ==
    IF off = 0 \/ off = NoPrev \/ off \in seen THEN <<>>
    ELSE <<off>> \o PrevChain(file.prev[off], seen \cup {off})

\* The offsets section sec gives for key k in in-use rows.
InUseOffsets(sec, k) ==
    { file.rows[sec][j].offset : j \in { j \in 1..Len(file.rows[sec]) :
            file.rows[sec][j].inuse /\ Key(file.rows[sec][j]) = k } }

\* The places in the walk whose section has an in-use row for k.
Definers(w, k) ==
    { i \in 1..Len(w) : InUseOffsets(w[i], k) # {} }

Min(S) ==
    CHOOSE m \in S : \A n \in S : m <= n

----------------------------------------------------------------------------
(* The object cache: PDFTokenizer.GetObject and LoadObject,                 *)
(* parser/__init__.py 306-437                                               *)

MaxCalls == 3

CacheKeys == {<<1, 0>>, <<2, 0>>, <<3, 0>>}

\* The object that streams name as their indirect Length.
LengthKey == <<3, 0>>

\* The xref chain after Initialize, left alone while objects are fetched.
XIdle ==
    /\ file = [startxref |-> 0]
    /\ offset = 0
    /\ contents = {0}
    /\ xnext = <<>>
    /\ rootxref = None
    /\ prevx = None
    /\ mx = None
    /\ ipc = "done"

\* What the file can hold for a key: nothing (no in-use xref row), a
\* dictionary, an integer, a stream whose Length is an integer, or a stream
\* whose Length is a reference to LengthKey.
StoreKinds(k) ==
    IF k = LengthKey THEN {"missing", "int"}
    ELSE {"missing", "dict", "stream", "streamref"}

Stores ==
    { st \in [CacheKeys -> {"missing", "dict", "int", "stream", "streamref"}] :
        \A k \in CacheKeys : st[k] \in StoreKinds(k) }

\* The converters GetObject is called with: GetDictionary, GetContent and
\* GetColorSpace (lines 475, 493, 502).
Handlers == {"_ParseDictionary", "_ParseContent", "_ParseColorSpace"}

\* Lines 546-558 and 629-634: _ParseColorSpace always raises, _ParseStream
\* reads the stream body tokens[0].value[2][1], which only a stream has.
HandlerFaults(h, kind) ==
    IF h = "_ParseColorSpace" THEN TRUE
    ELSE IF h = "_ParseContent" THEN kind \notin {"stream", "streamref"}
    ELSE FALSE

CInit ==
    /\ FIdle
    /\ XIdle
    /\ LIdle
    /\ RIdle
    /\ store \in Stores
    /\ objmap = [k \in {k \in CacheKeys : store[k] # "missing"} |-> ObjOffset(1, k[1], k[2])]
    /\ cache = EmptyMap
    /\ nrec = 0
    /\ loads = [k \in CacheKeys |-> 0]
    /\ stored = [k \in CacheKeys |-> 0]
    /\ returned = [k \in CacheKeys |-> {}]
    /\ gret = [outcome |-> "none"]
    /\ ncalls = 0

\* A GetObject that never finds the key in the cache.
CacheHitNever(k) ==
    FALSE

\* Line 424: k in self.pdf.contents
CacheHit(k) ==
    k \in DOMAIN cache

\* Lines 361-410: reading the object at its offset; a stream whose Length is
\* a reference has that integer read by LoadObject(dlen, self._ParseInt),
\* which raises when the reference is not in the object map.
\* The result: did the read complete, and the file reads it made.
LoadObjectReads(k) ==
    IF store[k] = "streamref"
    THEN IF LengthKey \in DOMAIN objmap
         THEN [ok |-> TRUE, reads |-> {k, LengthKey}]
         ELSE [ok |-> FALSE, reads |-> {k}]
    ELSE [ok |-> TRUE, reads |-> {k}]

\* Lines 306-359: LoadObject(objid, handler); handled tells that the
\* handler was called (line 346).
LoadObject(k, h) ==
    IF k \notin DOMAIN objmap THEN [ok |-> FALSE, reads |-> {}, handled |-> FALSE]
    ELSE LET r == LoadObjectReads(k)
         IN  IF ~r.ok THEN [ok |-> FALSE, reads |-> r.reads, handled |-> FALSE]
             ELSE IF HandlerFaults(h, store[k]) THEN [ok |-> FALSE, reads |-> r.reads, handled |-> TRUE]
             ELSE [ok |-> TRUE, reads |-> r.reads, handled |-> TRUE]

\* A cache key that also names the converter.
ContentsKeyTyped(k, h) ==
    <<k[1], k[2], h>>

\* Line 421: k = (objid.objid, objid.generation), whatever the handler.
ContentsKey(k, h) ==
    k

\* Lines 412-437: GetObject(objid, handler), for an IndirectObject objid.
GetObject(k, h) ==
    /\ ncalls < MaxCalls
    /\ ncalls' = ncalls + 1
    /\ IF CacheHit(ContentsKey(k, h))
       THEN /\ gret' = [outcome |-> "hit", key |-> k, rec |-> cache[ContentsKey(k, h)],
                        handler |-> h, handled |-> FALSE]
            /\ returned' = [returned EXCEPT ![k] = @ \cup {cache[ContentsKey(k, h)]}]
            /\ UNCHANGED <<cache, nrec, loads, stored>>
       ELSE LET r == LoadObject(k, h)
                kk == ContentsKey(k, h)
            IN  /\ loads' = [j \in CacheKeys |-> IF j \in r.reads THEN loads[j] + 1 ELSE loads[j]]
                /\ IF r.ok
                   THEN /\ nrec' = nrec + 1
                        /\ cache' = [j \in DOMAIN cache \cup {kk} |-> IF j = kk THEN nrec + 1 ELSE cache[j]]
                        /\ stored' = [stored EXCEPT ![k] = @ + 1]
                        /\ returned' = [returned EXCEPT ![k] = @ \cup {nrec + 1}]
                        /\ gret' = [outcome |-> "loaded", key |-> k, rec |-> nrec + 1,
                                    handler |-> h, handled |-> TRUE]
                   ELSE /\ gret' = [outcome |-> "raised", key |-> k, rec |-> 0,
                                    handler |-> h, handled |-> r.handled]
                        /\ UNCHANGED <<cache, nrec, stored, returned>>
    /\ UNCHANGED <<store, objmap>>
    /\ UNCHANGED <<file, offset, contents, xnext, rootxref, prevx, mx, ipc>>
    /\ UNCHANGED <<lvars, rvars, fvars>>

GetObjectCall ==
    \E k \in CacheKeys, h \in Handlers : GetObject(k, h)

CNext ==
    GetObjectCall

SpecCache ==
    CInit /\ [][CNext]_vars

\* C2 as stated: two GetObject calls with the same key return the same
\* record, and no object is read from the file more than once.
C2_LoadedFromFileAtMostOnce ==
    \A k \in DOMAIN returned :
        /\ Cardinality(returned[k]) <= 1
        /\ loads[k] <= 1

\* C2 amended: two GetObject calls with the same key return the same record,
\* and GetObject loads and stores a record at most once per key, never
\* replacing a stored one.
C2_SameRecordStoredOnce ==
    /\ [](\A k \in DOMAIN returned :
            /\ Cardinality(returned[k]) <= 1
            /\ stored[k] <= 1
            /\ (k \in DOMAIN cache => returned[k] = {cache[k]}))
    /\ [][\A k \in DOMAIN cache : k \in DOMAIN cache' /\ cache'[k] = cache[k]]_vars

\* A key that was loaded is asked for again and comes from the cache.
C2_Witness ==
    /\ gret.outcome = "hit"
    /\ stored[gret.key] = 1
    /\ loads[gret.key] >= 1

----------------------------------------------------------------------------
(* Lazy attributes: PDFHigherBase.__getattr__, pdf.py 295-327, with the     *)
(* loader PDFTokenizer._DynamicLoader, parser/__init__.py 744-888           *)

MaxReads == 3

Klasses == {"Catalog", "PageTreeNode", "Page"}

\* pdf.py 380-470: the underscore-prefixed class attributes (those modelled).
Declared(klass) ==
    IF klass = "Catalog" THEN {"Type", "Pages", "Names"}
    ELSE IF klass = "PageTreeNode" THEN {"Type", "Parent", "Kids", "Count"}
    ELSE {"Type", "Parent", "MediaBox", "Contents"}

AllKeys == {"Type", "Pages", "Names", "Parent", "Kids", "Count", "MediaBox", "Contents"}

\* The raw value the parser stored for a key: none ("absent": the key is
\* not in the object's dictionary), null, or a value of the shape a file
\* gives that key.
RawValues(k) ==
    {"absent", "null"} \cup
    ( IF k = "Type" THEN {"name"}
      ELSE IF k = "Count" THEN {"int"}
      ELSE IF k \in {"Pages", "Parent"} THEN {"indirect"}
      ELSE IF k = "Kids" THEN {"array"}
      ELSE IF k = "Names" THEN {"indirect"}
      ELSE {"array", "indirect"} )

\* parser/__init__.py 725-742: _StupidObjectParser sets _k for every key of
\* the object's dictionary.
Records ==
    UNION { { [klass |-> c, raw |-> r] :
                r \in { r \in [Declared(c) -> {"absent", "null", "name", "int", "indirect", "array"}] :
                            \A k \in Declared(c) : r[k] \in RawValues(k) } } :
            c \in Klasses }

\* parser/__init__.py 744-888: what the loader does for (class, key, raw
\* value): it returns the raw value, returns the record(s) the reference
\* resolves to, or raises.
DynamicLoader(klass, key, value) ==
    IF key = "Type" THEN [ok |-> TRUE, val |-> <<"raw", value>>]
    ELSE IF klass = "Catalog" /\ key = "Pages"
        THEN [ok |-> value = "indirect", val |-> <<"PageTreeNode", value>>]
    ELSE IF klass = "PageTreeNode" /\ key = "Kids"
        THEN [ok |-> value = "array", val |-> <<"list of PageTreeNode or Page", value>>]
    ELSE IF klass = "PageTreeNode" /\ key = "Count"
        THEN [ok |-> TRUE, val |-> <<"raw", value>>]
    ELSE IF klass = "Page" /\ key = "Parent"
        THEN [ok |-> value = "indirect", val |-> <<"PageTreeNode", value>>]
    ELSE IF klass = "Page" /\ key = "MediaBox"
        THEN [ok |-> value # "indirect", val |-> <<"raw", value>>]
    ELSE IF klass = "Page" /\ key = "Contents"
        THEN [ok |-> value \in {"array", "indirect"}, val |-> <<"Content", value>>]
    ELSE [ok |-> FALSE, val |-> <<"NotImplementedError", value>>]

Unset == <<"unset">>

PyNone == <<"None">>

LInit ==
    /\ FIdle
    /\ XIdle
    /\ CIdle
    /\ RIdle
    /\ objmap = EmptyMap
    /\ lrec \in Records
    /\ ldict = [k \in Declared(lrec.klass) |-> Unset]
    /\ lcalls = [k \in Declared(lrec.klass) |-> 0]
    /\ lreads = [k \in Declared(lrec.klass) |-> 0]
    /\ lret = [outcome |-> "none"]

\* Reading record.k: an entry of __dict__ is returned as it is; otherwise
\* __getattr__ (lines 295-327) runs.
ReadAttr(k) ==
    /\ lrec.klass # "none"
    /\ k \in Declared(lrec.klass)
    /\ lreads[k] < MaxReads
    /\ lreads' = [lreads EXCEPT ![k] = @ + 1]
    /\ IF ldict[k] # Unset
       THEN /\ lret' = [outcome |-> "value", key |-> k, val |-> ldict[k]]
            /\ UNCHANGED <<ldict, lcalls>>
       ELSE IF lrec.raw[k] = "absent"
       THEN /\ ldict' = [ldict EXCEPT ![k] = PyNone]
            /\ lret' = [outcome |-> "value", key |-> k, val |-> PyNone]
            /\ UNCHANGED lcalls
       ELSE IF lrec.raw[k] = "null"
       THEN /\ ldict' = [ldict EXCEPT ![k] = PyNone]
            /\ lret' = [outcome |-> "value", key |-> k, val |-> PyNone]
            /\ UNCHANGED lcalls
       ELSE LET r == DynamicLoader(lrec.klass, k, lrec.raw[k])
            IN  /\ lcalls' = [lcalls EXCEPT ![k] = @ + 1]
                /\ IF r.ok
                   THEN /\ ldict' = [ldict EXCEPT ![k] = r.val]
                        /\ lret' = [outcome |-> "value", key |-> k, val |-> r.val]
                   ELSE /\ lret' = [outcome |-> "raised", key |-> k, val |-> r.val]
                        /\ UNCHANGED ldict
    /\ UNCHANGED lrec
    /\ UNCHANGED <<xvars, cvars, rvars, fvars>>

ReadAttrCall ==
    \E k \in AllKeys : ReadAttr(k)

LNext ==
    ReadAttrCall

SpecLazy ==
    LInit /\ [][LNext]_vars

\* C3: for a declared field whose raw value is present, the loader is
\* invoked exactly once however often the field is read, and every read
\* after the first returns the cached value; a field that is not present
\* reads as None without any loader call.
C3_LoaderInvokedOnce ==
    \A k \in DOMAIN lreads :
        /\ (lrec.raw[k] \notin {"absent", "null"} /\ lreads[k] >= 1) => lcalls[k] = 1
        /\ (lrec.raw[k] \notin {"absent", "null"} /\ lreads[k] >= 2) => ldict[k] # Unset
        /\ lrec.raw[k] = "absent" => lcalls[k] = 0

----------------------------------------------------------------------------
(* Rendering: PDF.RenderPages and PDF.RenderPage, __init__.py 249-461, over *)
(* the state manager of parser/state.py                                     *)

\* Mat3x3.__init__: the matrix [a b g; c d h; e f i], g, h, i = 0, 0, 1
\* unless given.
Mat3x3(a, b, c, d, e, f) ==
    [A |-> a, B |-> b, C |-> c, D |-> d, E |-> e, F |-> f, G |-> 0, H |-> 0, I |-> 1]

\* Mat3x3.__mul__, with the third column it passes as g, h, i.
Mat3x3_mul(a, b) ==
    [A |-> a.A*b.A + a.B*b.C + a.G*b.E,
     B |-> a.A*b.B + a.B*b.D + a.G*b.F,
     C |-> a.C*b.A + a.D*b.C + a.H*b.E,
     D |-> a.C*b.B + a.D*b.D + a.H*b.F,
     E |-> a.E*b.A + a.F*b.C + a.I*b.E,
     F |-> a.E*b.B + a.F*b.D + a.I*b.F,
     G |-> a.A*b.G + a.B*b.H + a.G*b.I,
     H |-> a.C*b.G + a.D*b.H + a.H*b.I,
     I |-> a.E*b.G + a.F*b.H + a.I*b.I]

Identity ==
    Mat3x3(1, 0, 0, 1, 0, 0)

\* A matrix attribute holding None.
NoneMat == [A |-> "None"]

\* A matrix attribute that was never assigned: reading it raises
\* AttributeError.
UnsetMat == [A |-> "unset"]

IsMat(m) ==
    DOMAIN m = {"A", "B", "C", "D", "E", "F", "G", "H", "I"}

\* TextState.__init__: Tfs is not assigned (<<>>), Tm and Tlm are None.
TextState ==
    [Tf |-> "None", Tfs |-> <<>>, Tc |-> 0, TL |-> 0, Tr |-> 0, Ts |-> 0,
     Tw |-> 0, Tz |-> 100, Tm |-> NoneMat, Tlm |-> NoneMat]

\* State.__init__, its text state at address a: the identity goes to the
\* attribute ctm; the property cm reads _cm, which nothing has assigned;
\* the attribute w does not exist either.  startpos and pos are the origin;
\* a startpos that is None is <<>>.
State(a) ==
    [ctm |-> Identity, cm |-> UnsetMat, colorspace |-> <<"DeviceGray", "DeviceGray">>,
     linewidth |-> 1, w |-> <<>>, text |-> a, startpos |-> <<0, 0>>, pos |-> <<0, 0>>]

\* StateManager.S and StateManager.T
TopS(stk) ==
    stk[Len(stk)]

TopT(stk, txs) ==
    txs[TopS(stk).text]

\* A copy of the top state that shares the text state of the original.
CopyShallow(stk, txs) ==
    [S |-> TopS(stk), texts |-> txs]

\* State.Copy: copy.deepcopy, the text state is copied to a new address.
Copy(stk, txs) ==
    [S |-> [TopS(stk) EXCEPT !.text = Len(txs) + 1],
     texts |-> Append(txs, TopT(stk, txs))]

\* StateManager.Push; the result is the stack, the text states and the
\* exception raised.
Push(stk, txs) ==
    IF Len(stk) = 0 THEN [stack |-> stk, texts |-> txs, fault |-> "ValueError"]
    ELSE LET sc == Copy(stk, txs)
         IN  [stack |-> Append(stk, sc.S), texts |-> sc.texts, fault |-> "none"]

\* The highest address a stack refers to.
RECURSIVE MaxAddr(_)
MaxAddr(stk) ==
    IF stk = <<>> THEN 0
    ELSE LET r == MaxAddr(Tail(stk))
         IN  IF Head(stk).text > r THEN Head(stk).text ELSE r

\* A pop that does not look at the size of the stack.
PopUnguarded(stk, txs) ==
    IF Len(stk) = 0 THEN [stack |-> stk, texts |-> txs, fault |-> "IndexError"]
    ELSE LET rest == SubSeq(stk, 1, Len(stk) - 1)
         IN  [stack |-> rest, texts |-> SubSeq(txs, 1, MaxAddr(rest)), fault |-> "none"]

\* StateManager.Pop; the text state of the popped entry goes with it.
Pop(stk, txs) ==
    IF Len(stk) = 0 THEN [stack |-> stk, texts |-> txs, fault |-> "ValueError"]
    ELSE IF Len(stk) = 1 THEN [stack |-> stk, texts |-> txs, fault |-> "ValueError"]
    ELSE LET rest == SubSeq(stk, 1, Len(stk) - 1)
         IN  [stack |-> rest, texts |-> SubSeq(txs, 1, MaxAddr(rest)), fault |-> "none"]

\* The Tm property with a setter that assigns _Tm only.
set_TmOnly(T, v) ==
    [T EXCEPT !.Tm = v]

\* TextState.text_begin and text_end; the Tm setter assigns _Tm and _Tlm.
set_Tm(T, v) ==
    [T EXCEPT !.Tm = v, !.Tlm = v]

text_begin(T) ==
    [set_Tm(T, Identity) EXCEPT !.Tlm = Identity]

text_end(T) ==
    [set_Tm(T, NoneMat) EXCEPT !.Tlm = NoneMat]

\* TextState.do_Td: multiplying by a Tlm that is None raises AttributeError.
do_Td(T, x, y) ==
    IF ~IsMat(T.Tlm) THEN [ok |-> FALSE, T |-> T]
    ELSE [ok |-> TRUE, T |-> set_Tm(T, Mat3x3_mul(Mat3x3(1, 0, 0, 1, x, y), T.Tlm))]

\* TextState.do_Tstar: do_Td(0, TL).
do_Tstar(T) ==
    do_Td(T, 0, T.TL)

\* TextState.do_TD: its first statement calls self.do_TL, a method that
\* TextState does not have, which raises AttributeError.
do_TD(T, x, y) ==
    [ok |-> FALSE, T |-> T]

\* State.do_m and do_l, do_h and do_re.
do_m(S, x, y) ==
    [S EXCEPT !.pos = <<x, y>>]

do_h(S) ==
    IF S.startpos # <<>> THEN [S EXCEPT !.pos = S.startpos, !.startpos = <<>>]
    ELSE [S EXCEPT !.startpos = <<>>]

do_re(S, x, y, w, h) ==
    LET S1 == IF S.startpos = <<>> THEN [S EXCEPT !.startpos = <<x, y>>] ELSE S
    IN  do_h(do_m(do_m(do_m(do_m(S1, x, y), x + w, y), x + w, y + h), x, y + h))

\* TextState.do_Tj: the displacement for a TJ number w and for a glyph of
\* the given width.  The values used divide without remainder.
TxNumber(T, w) ==
    ((((0 - w) * T.Tfs[1]) \div 1000 + T.Tc + T.Tw) * T.Tz) \div 100

TxGlyph(T, width) ==
    (((width * T.Tfs[1]) \div 1000 + T.Tc + T.Tw) * T.Tz) \div 100

\* TextState.do_Tj with the displacement tx already computed: reading a Tfs
\* never assigned, or multiplying by a Tm that is None, raises.
do_Tj(T, number, w) ==
    IF T.Tfs = <<>> \/ ~IsMat(T.Tm) THEN [ok |-> FALSE, T |-> T]
    ELSE LET tx == IF number THEN TxNumber(T, w) ELSE TxGlyph(T, w)
         IN  [ok |-> TRUE, T |-> set_Tm(T, Mat3x3_mul(Mat3x3(1, 0, 0, 1, tx, 0), T.Tm))]

\* The fonts of a page's Resources and the widths of their glyphs.
PageFonts == {"F1"}

GlyphWidth(ch) ==
    IF ch = "A" THEN 500 ELSE 1000

\* The record the callback is called with: the event name, the page (0 for
\* None) and the further arguments (for 'page exception', what the
\* callback returned); at is the y translation of Tm * cm at
\* the call, kept for glyph draws only.
Event(kind, page, args, at) ==
    [kind |-> kind, page |-> page, args |-> args, at |-> at]

\* The interpreter of one page: the state manager, the callback's calls so
\* far and the exception raised.
SetS(M, S) ==
    [M EXCEPT !.stack[Len(M.stack)] = S]

SetT(M, T) ==
    [M EXCEPT !.texts[TopS(M.stack).text] = T]

Raise(M, exc) ==
    [M EXCEPT !.fault = exc]

Callback(M, e) ==
    [M EXCEPT !.events = Append(@, e)]

\* RenderPage lines 432-444, for one character of a string: GetGlyph
\* (GetFont raises for a font name the page does not have: building the
\* message of its ValueError with %d of a Page raises TypeError), the
\* position, the callback, then do_Tj.
ShowChar(M, pg, ch) ==
    LET T == TopT(M.stack, M.texts)
        S == TopS(M.stack)
    IN  IF T.Tf \notin PageFonts THEN Raise(M, "TypeError")
        ELSE IF T.Tfs = <<>> \/ ~IsMat(T.Tm) \/ ~IsMat(S.cm) THEN Raise(M, "AttributeError")
        ELSE LET m == Mat3x3_mul(Mat3x3_mul(Mat3x3(T.Tfs[1] * T.Tz, 0, 0, T.Tfs[1], 0, T.Tr), T.Tm), S.cm)
                 M1 == Callback(M, Event("glyph draw", pg, <<m.E, m.F, ch>>, Mat3x3_mul(T.Tm, S.cm).F))
                 r == do_Tj(T, FALSE, GlyphWidth(ch))
             IN  IF r.ok THEN SetT(M1, r.T) ELSE Raise(M1, "AttributeError")

RECURSIVE ShowChars(_, _, _)
ShowChars(M, pg, txt) ==
    IF txt = <<>> \/ M.fault # "none" THEN M
    ELSE ShowChars(ShowChar(M, pg, Head(txt)), pg, Tail(txt))

\* Lines 413-420: a number inside TJ moves the text matrix, then the
\* callback is told.
ShowSpace(M, pg, w) ==
    LET r == do_Tj(TopT(M.stack, M.texts), TRUE, w)
    IN  IF r.ok THEN Callback(SetT(M, r.T), Event("space draw", pg, <<w>>, 0))
        ELSE Raise(M, "AttributeError")

\* Lines 412-444: the operands of Tj and TJ in their order.
RECURSIVE ShowSubtoks(_, _, _)
ShowSubtoks(M, pg, subtoks) ==
    IF subtoks = <<>> \/ M.fault # "none" THEN M
    ELSE LET subtok == Head(subtoks)
             M1 == IF subtok.type = "INT" THEN ShowSpace(M, pg, subtok.value)
                   ELSE ShowChars(M, pg, subtok.value)
         IN  ShowSubtoks(M1, pg, Tail(subtoks))

\* One token of the RenderPage loop, lines 306-459: state manager, events
\* and exception after it.
Exec(M, pg, t) ==
    LET S == TopS(M.stack)
        T == TopT(M.stack, M.texts)
        v == t.value
    IN  CASE M.stack = <<>> /\ t.type \notin {"q", "Q"} -> Raise(M, "IndexError")
          [] t.type = "q" ->
                LET r == Push(M.stack, M.texts)
                IN  [M EXCEPT !.stack = r.stack, !.texts = r.texts, !.fault = r.fault]
          [] t.type = "Q" ->
                LET r == Pop(M.stack, M.texts)
                IN  [M EXCEPT !.stack = r.stack, !.texts = r.texts, !.fault = r.fault]
          [] t.type = "w" -> SetS(M, [S EXCEPT !.w = <<v[1].value>>])
          [] t.type = "cs" -> SetS(M, [S EXCEPT !.colorspace = <<S.colorspace[1], v[1].value>>])
          [] t.type = "cm" ->
                SetS(M, [S EXCEPT !.cm = Mat3x3(v[1].value, v[2].value, v[3].value,
                                                 v[4].value, v[5].value, v[6].value)])
          [] t.type = "BT" -> SetT(M, text_begin(T))
          [] t.type = "ET" -> SetT(M, text_end(T))
          [] t.type = "Tf" ->
                Callback(SetT(M, [T EXCEPT !.Tf = v[1].value, !.Tfs = <<v[2].value>>]),
                         Event("change font", pg, <<v[1].value, v[2].value>>, 0))
          [] t.type \in {"Tj", "TJ"} -> ShowSubtoks(M, pg, v)
          [] t.type = "Tm" ->
                SetT(M, set_Tm(T, Mat3x3(v[1].value, v[2].value, v[3].value,
                                         v[4].value, v[5].value, v[6].value)))
          [] t.type = "Tc" -> SetT(M, [T EXCEPT !.Tc = v[1].value])
          [] t.type = "TL" -> SetT(M, [T EXCEPT !.TL = v[1].value])
          [] t.type = "Tw" -> SetT(M, [T EXCEPT !.Tw = v[1].value])
          [] t.type = "Tstar" ->
                LET r == do_Tstar(T)
                IN  IF r.ok THEN SetT(M, r.T) ELSE Raise(M, "AttributeError")
          [] t.type = "Tr" -> SetT(M, [T EXCEPT !.Tr = v[1].value])
          [] t.type = "Ts" -> SetT(M, [T EXCEPT !.Ts = v[1].value])
          [] t.type = "Tz" -> SetT(M, [T EXCEPT !.Tz = v[1].value])
          [] t.type = "Td" ->
                LET r == do_Td(T, v[1].value, v[2].value)
                IN  IF r.ok THEN SetT(M, r.T) ELSE Raise(M, "AttributeError")
          [] t.type = "TD" ->
                LET r == do_TD(T, v[1].value, v[2].value)
                IN  IF r.ok THEN SetT(M, r.T) ELSE Raise(M, "AttributeError")
          [] t.type \in {"m", "l"} -> SetS(M, do_m(S, v[1].value, v[2].value))
          [] t.type = "h" -> SetS(M, do_h(S))
          [] t.type = "re" -> SetS(M, do_re(S, v[1].value, v[2].value, v[3].value, v[4].value))
          [] t.type \in {"c", "v", "y"} -> Raise(M, "AttributeError")
          [] t.type \in {"Fstar", "fstar", "F", "f", "S", "s", "n", "W", "Wstar", "Do"} -> M
          [] t.type \in {"BDC", "EMC"} -> M
          [] OTHER -> Raise(M, "ValueError")

\* Tokens as TokensPostfixToPrefix hands them over: the operator with its
\* operands as value.
INT(n) == [type |-> "INT", value |-> n]

NAME(n) == [type |-> "NAME", value |-> n]

LIT(txt) == [type |-> "LIT", value |-> txt]

Op0(type) == [type |-> type, value |-> <<>>]

Op1(type, a) == [type |-> type, value |-> <<a>>]

Op2(type, a, b) == [type |-> type, value |-> <<a, b>>]

Op6(type, a, b, c, d, e, f) ==
    [type |-> type, value |-> <<INT(a), INT(b), INT(c), INT(d), INT(e), INT(f)>>]

\* The page tree: Page leaves and Pages nodes with their Kids.
Leaf(i) == [Type |-> "Page", id |-> i, Kids |-> <<>>]

Node(kids) == [Type |-> "Pages", id |-> 0, Kids |-> kids]

\* An enumeration that lists the pages among a node's kids before the
\* pages of its sub-nodes.
RECURSIVE DFSPagesLeavesFirst(_)
DFSPagesLeavesFirst(node) ==
    LET kids == node.Kids
        F[i \in 0..Len(kids)] ==
            IF i = 0 THEN <<>>
            ELSE IF kids[i].Type = "Page" THEN F[i-1] \o <<kids[i].id>> ELSE F[i-1]
        G[i \in 0..Len(kids)] ==
            IF i = 0 THEN <<>>
            ELSE IF kids[i].Type = "Page" THEN G[i-1] ELSE G[i-1] \o DFSPagesLeavesFirst(kids[i])
    IN  F[Len(kids)] \o G[Len(kids)]

\* PageTreeNode.DFSPages, pdf.py 421-437.
RECURSIVE DFSPages(_)
DFSPages(node) ==
    LET kids == node.Kids
        ret[i \in 0..Len(kids)] ==
            IF i = 0 THEN <<>>
            ELSE IF kids[i].Type = "Page" THEN Append(ret[i-1], kids[i].id)
            ELSE ret[i-1] \o DFSPages(kids[i])
    IN  ret[Len(kids)]

MaxTokens == 5

MaxPages == 2

PageIds == 1..MaxPages

\* The content streams rendered: "free" stands for any stream of up to
\* MaxTokens tokens over Alphabet, the others are the streams below.
Stream(name) ==
    CASE name = "example" ->
            << Op0("q"), Op6("cm", 1, 0, 0, 1, 100, 200),
               Op0("BT"), Op2("Tf", NAME("F1"), INT(12)), Op2("Td", INT(0), INT(0)),
               Op1("Tj", LIT(<<"A">>)), Op0("ET"), Op0("Q"),
               Op0("BT"), Op2("Tf", NAME("F1"), INT(12)), Op2("Td", INT(0), INT(0)),
               Op1("Tj", LIT(<<"B">>)), Op0("ET") >>
      [] name = "BT ET" -> << Op0("BT"), Op0("ET") >>
      [] name = "text" ->
            << Op6("cm", 1, 0, 0, 1, 10, 20), Op0("BT"), Op2("Tf", NAME("F1"), INT(12)),
               Op1("Tj", LIT(<<"A", "B">>)), Op0("ET") >>
      [] name = "array" ->
            << Op6("cm", 1, 0, 0, 1, 0, 0), Op0("BT"), Op2("Tf", NAME("F1"), INT(12)),
               [type |-> "TJ", value |-> <<LIT(<<"A">>), INT(-500), LIT(<<"B">>)>>],
               Op2("Tf", NAME("F2"), INT(12)), Op0("ET") >>
      [] name = "fault" -> << Op0("BT"), Op0("Q"), Op0("ET") >>
      [] name = "partial" ->
            << Op6("cm", 1, 0, 0, 1, 0, 0), Op0("BT"), Op2("Tf", NAME("F1"), INT(12)),
               Op1("Tj", LIT(<<"A">>)), Op0("Q") >>
      [] name = "scaled" ->
            << Op6("cm", 1, 0, 0, 1, 0, 0), Op0("BT"), Op2("Tf", NAME("F1"), INT(12)),
               Op6("Tm", 2, 0, 0, 2, 5, 7), Op1("Tj", LIT(<<"A">>)),
               Op1("Tj", LIT(<<"B">>)), Op0("ET") >>
      [] name = "hello" ->
            << Op0("BT"), Op2("Tf", NAME("F1"), INT(12)), Op2("Td", INT(72), INT(720)),
               Op1("Tj", LIT(<<"H", "e", "l", "l", "o">>)), Op0("ET") >>
      [] name = "hello cm" ->
            << Op6("cm", 1, 0, 0, 1, 0, 0), Op0("BT"), Op2("Tf", NAME("F1"), INT(12)),
               Op2("Td", INT(72), INT(720)),
               Op1("Tj", LIT(<<"H", "e", "l", "l", "o">>)), Op0("ET") >>
      [] name = "line" ->
            << Op6("cm", 1, 0, 0, 1, 0, 0), Op0("BT"), Op2("Tf", NAME("F1"), INT(12)),
               Op1("TL", INT(14)), Op2("Td", INT(10), INT(20)),
               Op1("Tj", LIT(<<"A", "B">>)), Op0("Tstar"), Op0("ET") >>
      [] name = "TD" ->
            << Op0("BT"), Op2("Tf", NAME("F1"), INT(12)), Op2("TD", INT(0), INT(15)), Op0("ET") >>
      [] name = "path" ->
            << Op2("m", INT(1), INT(2)), Op2("l", INT(3), INT(4)), Op0("h"), Op0("S"),
               [type |-> "re", value |-> <<INT(0), INT(0), INT(5), INT(5)>>], Op0("f"),
               Op0("fstar"), Op0("F"), Op0("s"), Op0("n") >>
      [] name = "curve" ->
            << Op2("m", INT(0), INT(0)), Op6("c", 1, 1, 2, 2, 3, 3), Op0("S") >>
      [] name = "curve v" ->
            << Op2("m", INT(0), INT(0)),
               [type |-> "v", value |-> <<INT(1), INT(1), INT(2), INT(2)>>], Op0("S") >>
      [] name = "fill and stroke" ->
            << Op2("m", INT(0), INT(0)), Op2("l", INT(3), INT(4)), Op0("B") >>
      [] OTHER -> <<>>

\* The tokens a stream of unknown content is made of.
Alphabet ==
    << Op0("q"), Op0("Q"), Op1("w", INT(2)), Op1("cs", NAME("Pattern")),
       Op6("cm", 1, 0, 0, 1, 10, 20), Op6("cm", 2, 0, 0, 2, 5, 7),
       Op0("BT"), Op0("ET"), Op2("Tf", NAME("F1"), INT(12)), Op1("Tr", INT(1)),
       Op2("Td", INT(0), INT(15)), Op6("Tm", 1, 0, 0, 1, 3, 4),
       Op1("Tj", LIT(<<"A">>)), Op1("TJ", INT(-500)) >>

\* The tokens that can come after the first n of the stream called name.
NextToks(name, n) ==
    IF name = "free" THEN (IF n < MaxTokens THEN Alphabet ELSE <<>>)
    ELSE IF n < Len(Stream(name)) THEN <<Stream(name)[n + 1]>>
    ELSE <<>>

\* Whether the stream called name can be n tokens long.
StreamMayEnd(name, n) ==
    IF name = "free" THEN TRUE ELSE n = Len(Stream(name))

\* Documents: the page tree, the order its pages were put into it, and the
\* name of each page's content stream.
Orders ==
    { o \in UNION { [1..n -> PageIds] : n \in 0..MaxPages } :
        \A i, j \in DOMAIN o : i # j => o[i] # o[j] }

Flat(o) ==
    [i \in DOMAIN o |-> Leaf(o[i])]

TreesOf(o) ==
    {Node(Flat(o))}
    \cup { Node(<<Node(Flat(SubSeq(o, 1, k)))>> \o Flat(SubSeq(o, k + 1, Len(o)))) : k \in 1..Len(o) }
    \cup { Node(Flat(SubSeq(o, 1, k - 1)) \o <<Node(Flat(SubSeq(o, k, Len(o))))>>) : k \in 1..Len(o) }

PageContentNames == {"BT ET", "text", "array", "fault", "partial"}

PagesDocs ==
    UNION { { [tree |-> t, order |-> o, content |-> c] :
                t \in TreesOf(o),
                c \in [{o[i] : i \in DOMAIN o} -> PageContentNames] } :
            o \in Orders }

RenderDocs ==
    { [tree |-> Node(<<Leaf(1)>>), order |-> <<1>>, content |-> c] :
        c \in [{1} -> {"free", "example", "scaled", "hello", "hello cm", "line", "TD", "path", "curve", "curve v",
                        "fill and stroke"}] }

\* Before RenderPages is called.
RStart ==
    /\ rpc = "init"
    /\ pageno = 0
    /\ stack = <<>>
    /\ texts = <<>>
    /\ events = <<>>
    /\ ntok = 0
    /\ tok = [type |-> "none", value |-> <<>>]
    /\ fault = "none"
    /\ inText = FALSE
    /\ saved = <<>>
    /\ restored = <<>>
    /\ pages = <<>>

RInit ==
    /\ FIdle
    /\ XIdle
    /\ CIdle
    /\ LIdle
    /\ objmap = EmptyMap
    /\ doc \in RenderDocs
    /\ RStart

PInit ==
    /\ FIdle
    /\ XIdle
    /\ CIdle
    /\ LIdle
    /\ objmap = EmptyMap
    /\ doc \in PagesDocs
    /\ RStart

\* The stack with each entry's text state in place of its address.
Deref(stk, txs) ==
    [i \in DOMAIN stk |-> [stk[i] EXCEPT !.text = txs[stk[i].text]]]

\* RenderPages lines 254-258: the pages in DFS order, then the first call
\* of the callback.
RenderPagesBegin ==
    /\ rpc = "init"
    /\ pages' = DFSPages(doc.tree)
    /\ events' = Append(events, Event("render pages start", 0, <<>>, 0))
    /\ pageno' = 1
    /\ rpc' = IF DFSPages(doc.tree) = <<>> THEN "finish" ELSE "page"
    /\ UNCHANGED <<doc, stack, texts, ntok, tok, fault, inText, saved, restored>>
    /\ UNCHANGED <<xvars, cvars, lvars, fvars>>

\* RenderPage lines 277-298: a new StateManager, then 'page start'.
RenderPageBegin ==
    /\ rpc = "page"
    /\ stack' = <<State(1)>>
    /\ texts' = <<TextState>>
    /\ events' = Append(events, Event("page start", pages[pageno], <<>>, 0))
    /\ ntok' = 0
    /\ tok' = [type |-> "none", value |-> <<>>]
    /\ fault' = "none"
    /\ inText' = FALSE
    /\ saved' = <<>>
    /\ restored' = <<>>
    /\ rpc' = "tokens"
    /\ UNCHANGED <<doc, pageno, pages>>
    /\ UNCHANGED <<xvars, cvars, lvars, fvars>>

\* One turn of the token loop, lines 304-459.
ProcessToken ==
    /\ rpc = "tokens"
    /\ \E i \in DOMAIN NextToks(doc.content[pages[pageno]], ntok) :
        LET t == NextToks(doc.content[pages[pageno]], ntok)[i]
            R == Exec([stack |-> stack, texts |-> texts, events |-> events, fault |-> "none"],
                      pages[pageno], t)
            done == R.fault = "none"
        IN  /\ stack' = R.stack
            /\ texts' = R.texts
            /\ events' = R.events
            /\ fault' = R.fault
            /\ tok' = t
            /\ ntok' = ntok + 1
            /\ rpc' = IF done THEN "tokens" ELSE "exception"
            /\ inText' = IF done /\ t.type = "BT" THEN TRUE
                         ELSE IF done /\ t.type = "ET" THEN FALSE
                         ELSE inText
            /\ saved' = IF done /\ t.type = "q" THEN Append(saved, Deref(stack, texts))
                        ELSE IF done /\ t.type = "Q" /\ saved # <<>>
                             THEN SubSeq(saved, 1, Len(saved) - 1)
                        ELSE saved
            /\ restored' = IF done /\ t.type = "Q" /\ saved # <<>> THEN saved[Len(saved)]
                           ELSE restored
    /\ UNCHANGED <<doc, pageno, pages>>
    /\ UNCHANGED <<xvars, cvars, lvars, fvars>>

\* The stream has no further token: line 461, 'page end', and the loop of
\* RenderPages goes to the next page.
RenderPageEnd ==
    /\ rpc = "tokens"
    /\ StreamMayEnd(doc.content[pages[pageno]], ntok)
    /\ events' = Append(events, Event("page end", pages[pageno], <<>>, 0))
    /\ pageno' = pageno + 1
    /\ rpc' = IF pageno < Len(pages) THEN "page" ELSE "finish"
    /\ UNCHANGED <<doc, stack, texts, ntok, tok, fault, inText, saved, restored, pages>>
    /\ UNCHANGED <<xvars, cvars, lvars, fvars>>

\* An except clause that calls the callback and goes on to the next page
\* whatever it returns.
PageExceptionIgnoresReturn ==
    /\ rpc = "exception"
    /\ \E ret \in BOOLEAN :
        /\ events' = Append(events, Event("page exception", 0, <<ret>>, 0))
        /\ rpc' = IF pageno < Len(pages) THEN "page" ELSE "finish"
        /\ pageno' = pageno + 1
    /\ UNCHANGED <<doc, stack, texts, ntok, tok, fault, inText, saved, restored, pages>>
    /\ UNCHANGED <<xvars, cvars, lvars, fvars>>

\* RenderPages lines 263-268: the except clause; ret is what the callback
\* returns for 'page exception'.
PageException ==
    /\ rpc = "exception"
    /\ \E ret \in BOOLEAN :
        /\ events' = Append(events, Event("page exception", 0, <<ret>>, 0))
        /\ IF ret
           THEN /\ rpc' = "raised"
                /\ UNCHANGED pageno
           ELSE /\ rpc' = IF pageno < Len(pages) THEN "page" ELSE "finish"
                /\ pageno' = pageno + 1
    /\ UNCHANGED <<doc, stack, texts, ntok, tok, fault, inText, saved, restored, pages>>
    /\ UNCHANGED <<xvars, cvars, lvars, fvars>>

\* RenderPages line 270.
RenderPagesEnd ==
    /\ rpc = "finish"
    /\ events' = Append(events, Event("render pages end", 0, <<>>, 0))
    /\ rpc' = "done"
    /\ UNCHANGED <<doc, pageno, stack, texts, ntok, tok, fault, inText, saved, restored, pages>>
    /\ UNCHANGED <<xvars, cvars, lvars, fvars>>

RNext ==
    \/ RenderPagesBegin
    \/ RenderPageBegin
    \/ ProcessToken
    \/ RenderPageEnd
    \/ PageException
    \/ RenderPagesEnd

SpecRender ==
    RInit /\ [][RNext]_vars

SpecPages ==
    PInit /\ [][RNext]_vars

\* C4: while a page is rendered the state stack is never empty, whatever
\* q and Q came, and a Q met with only the initial state on the stack
\* raises and leaves the stack as it was.
C4_StackNeverEmpty ==
    /\ [](rpc \in {"tokens", "exception"} => Len(stack) >= 1)
    /\ [][(rpc = "tokens" /\ ntok' = ntok + 1 /\ tok'.type = "Q" /\ Len(stack) = 1)
            => (fault' = "ValueError" /\ stack' = stack /\ texts' = texts)]_vars

\* After a q and the Q that undid it, a further Q finds only the initial
\* state and raises.
C4_Witness ==
    /\ tok.type = "Q"
    /\ fault = "ValueError"
    /\ restored # <<>>
    /\ Len(stack) = 1

\* C5: while a q is pending, the entries of the stack that were there when
\* it copied the top stay as they were then, whatever is done to the copy,
\* and the Q that undoes it leaves the whole stack, its top included, equal
\* field for field to what it was at the q.
C5_QRestoresState ==
    /\ \A i \in DOMAIN saved :
        /\ Len(stack) > i
        /\ SubSeq(Deref(stack, texts), 1, i) = saved[i]
    /\ (rpc = "tokens" /\ tok.type = "Q" /\ fault = "none") => Deref(stack, texts) = restored

\* A font was set on a copy (the callback was told) and the Q that followed
\* brought back the state without a font.
C5_Witness ==
    /\ rpc = "tokens"
    /\ tok.type = "Q"
    /\ fault = "none"
    /\ restored # <<>>
    /\ \E i \in DOMAIN events : events[i].kind = "change font"
    /\ TopT(stack, texts).Tf = "None"
    /\ Deref(stack, texts) = restored

\* The current transformation matrix of a state: what cm assigned, and the
\* identity of State.__init__ before any cm.
CTM(S) ==
    IF IsMat(S.cm) THEN S.cm ELSE S.ctm

TokMat(t) ==
    Mat3x3(t.value[1].value, t.value[2].value, t.value[3].value,
           t.value[4].value, t.value[5].value, t.value[6].value)

\* C6: a cm operator leaves as CTM its matrix multiplied onto the CTM the
\* state had before it.
C6_CmPreMultiplies ==
    [][(rpc = "tokens" /\ ntok' = ntok + 1 /\ tok'.type = "cm" /\ fault' = "none")
        => CTM(TopS(stack')) = Mat3x3_mul(TokMat(tok'), CTM(TopS(stack)))]_vars

\* The glyph draws among the events, as (x, y, character).
GlyphDraws ==
    LET F[i \in 0..Len(events)] ==
            IF i = 0 THEN <<>>
            ELSE IF events[i].kind = "glyph draw" THEN Append(F[i-1], events[i].args)
            ELSE F[i-1]
    IN  F[Len(events)]

\* C7: the example stream, whose second glyph is shown in the state Q
\* restored, to which no cm was applied, is rendered without an exception
\* and puts A at (100, 200) and B at (0, 0).
C7_GlyphWithoutCm ==
    (doc.content[1] = "example" /\ rpc \in {"exception", "raised", "finish", "done"})
        => (fault = "none" /\ GlyphDraws = << <<100, 200, "A">>, <<0, 0, "B">> >>)

\* C8: the y of every glyph draw is the y translation of Tm * CTM at the
\* moment of the call.
C8_GlyphYIsTmCtmY ==
    \A i \in DOMAIN events :
        events[i].kind = "glyph draw" => events[i].args[2] = events[i].at

\* C9: outside BT ... ET the current text state has neither Tm nor Tlm.
C9_NoTmOutsideText ==
    (rpc = "tokens" /\ ~inText) =>
        (TopT(stack, texts).Tm = NoneMat /\ TopT(stack, texts).Tlm = NoneMat)

\* What an event says of its cause: its name, its page, and the font, the
\* character or the number it was called with.
Signature(e) ==
    <<e.kind, e.page,
      IF e.kind = "glyph draw" THEN e.args[3]
      ELSE IF e.kind = "change font" THEN e.args[1]
      ELSE IF e.kind = "space draw" THEN ToString(e.args[1])
      ELSE "">>

\* The events a token of page pg is the cause of, read off the token.
RECURSIVE SubtokCauses(_, _)
SubtokCauses(pg, subtoks) ==
    IF subtoks = <<>> THEN <<>>
    ELSE LET h == Head(subtoks)
         IN  ( IF h.type = "INT" THEN << <<"space draw", pg, ToString(h.value)>> >>
               ELSE [i \in DOMAIN h.value |-> <<"glyph draw", pg, h.value[i]>>] )
             \o SubtokCauses(pg, Tail(subtoks))

TokCauses(pg, t) ==
    IF t.type = "Tf" THEN << <<"change font", pg, t.value[1].value>> >>
    ELSE IF t.type \in {"Tj", "TJ"} THEN SubtokCauses(pg, t.value)
    ELSE <<>>

RECURSIVE StreamCauses(_, _)
StreamCauses(pg, toks) ==
    IF toks = <<>> THEN <<>>
    ELSE TokCauses(pg, Head(toks)) \o StreamCauses(pg, Tail(toks))

\* The events of the pages in the order the document was built with.
RECURSIVE OrderCauses(_)
OrderCauses(o) ==
    IF o = <<>> THEN <<>>
    ELSE << <<"page start", Head(o), "">> >>
         \o StreamCauses(Head(o), Stream(doc.content[Head(o)]))
         \o << <<"page end", Head(o), "">> >>
         \o OrderCauses(Tail(o))

NoPageFaulted ==
    \A i \in DOMAIN events : events[i].kind # "page exception"

\* C10: the callback's calls are only ever added to, and a RenderPages that
\* ended with no page raising has made exactly these: 'render pages start',
\* then for each page in depth-first order 'page start', the events of its
\* tokens in their order in the stream, 'page end', then 'render pages end';
\* a page holding only BT ET adds 'page start' and 'page end' alone.
C10_EventSequence ==
    /\ []((rpc = "done" /\ NoPageFaulted) =>
            [i \in DOMAIN events |-> Signature(events[i])]
                = << <<"render pages start", 0, "">> >>
                  \o OrderCauses(doc.order)
                  \o << <<"render pages end", 0, "">> >>)
    /\ [][Len(events') >= Len(events) /\ SubSeq(events', 1, Len(events)) = events]_vars

\* A document whose first page, in a sub-node of the tree, holds only BT ET
\* and whose second page shows text with TJ was rendered to the end.
C10_Witness ==
    /\ rpc = "done"
    /\ NoPageFaulted
    /\ Len(doc.order) = 2
    /\ doc.tree.Kids[1].Type = "Pages"
    /\ Len(doc.tree.Kids) = 2
    /\ doc.content[doc.order[1]] = "BT ET"
    /\ doc.content[doc.order[2]] = "array"
    /\ Len(events) = 11

\* How many events of a kind there are among evs.
Count(evs, kind) ==
    Cardinality({i \in DOMAIN evs : evs[i].kind = kind})

\* The events since the last 'page start', that one included.
Segment ==
    LET starts == {i \in DOMAIN events : events[i].kind = "page start"}
    IN  IF starts = {} THEN <<>>
        ELSE SubSeq(events, CHOOSE i \in starts : \A j \in starts : j <= i, Len(events))

----------------------------------------------------------------------------
(* GetFullText, __init__.py 466-538: the callback cb and what it collects   *)

\* GetFontWidths for the fonts of PageFonts: the list of widths.
FontWidths(Tf) ==
    <<500, 1000>>

Sum(w) ==
    LET F[i \in 0..Len(w)] == IF i = 0 THEN 0 ELSE F[i-1] + w[i]
    IN  F[Len(w)]

Abs(n) ==
    IF n < 0 THEN 0 - n ELSE n

\* Lines 474-476: fulltxt, txt and state before RenderPages is called;
\* widths is <<>> for None; raised tells that cb raised.
CbInit ==
    [fulltxt |-> <<>>, txt |-> <<>>, y |-> -1, widths |-> <<>>, raised |-> FALSE]

\* Lines 479-530: one call of cb.  A newline is "\n", a character is the
\* glyph's unicode.
cb(st, e) ==
    IF st.raised THEN st
    ELSE IF e.kind = "page exception" THEN st
    ELSE IF e.kind = "change font" THEN
        IF e.args[1] \notin PageFonts THEN [st EXCEPT !.raised = TRUE]
        ELSE [st EXCEPT !.widths = FontWidths(e.args[1])]
    ELSE IF e.kind = "glyph draw" THEN
        LET t1 == IF st.y # e.args[2] THEN Append(st.txt, "\n") ELSE st.txt
        IN  [st EXCEPT !.txt = Append(t1, e.args[3]), !.y = e.args[2]]
    ELSE IF e.kind = "space draw" THEN
        IF st.widths = <<>> THEN [st EXCEPT !.raised = TRUE]
        ELSE IF 2 * Abs(e.args[1]) * Len(st.widths) > Sum(st.widths)
             THEN [st EXCEPT !.txt = Append(@, " ")]
             ELSE st
    ELSE IF e.kind = "page end" THEN
        [st EXCEPT !.fulltxt = Append(@, st.txt), !.txt = <<>>]
    ELSE st

\* cb applied to the calls RenderPages made, in their order.
GetFullText ==
    LET F[i \in 0..Len(events)] == IF i = 0 THEN CbInit ELSE cb(F[i-1], events[i])
    IN  F[Len(events)]

\* The calls are those RenderPages makes with cb as its callback: cb did
\* not raise and returned False for every 'page exception'.
CalledWithCb ==
    /\ ~GetFullText.raised
    /\ \A i \in DOMAIN events : events[i].kind = "page exception" => ~events[i].args[1]

\* The characters of a page string that are glyphs.
GlyphsOf(txt) ==
    SelectSeq(txt, LAMBDA ch : ch \notin {"\n", " "})

\* The characters drawn on page pg, in order.
DrawnOn(pg) ==
    LET F[i \in 0..Len(events)] ==
            IF i = 0 THEN <<>>
            ELSE IF events[i].kind = "glyph draw" /\ events[i].page = pg
                 THEN Append(F[i-1], events[i].args[3])
            ELSE F[i-1]
    IN  F[Len(events)]

\* C12: GetFullText returns one string per page, in depth-first page order,
\* and the glyphs in the string of a page are those drawn on that page, also
\* when pages raise part-way.
C12_OneStringPerPage ==
    (rpc = "done" /\ CalledWithCb) =>
        /\ Len(GetFullText.fulltxt) = Len(doc.order)
        /\ \A i \in DOMAIN GetFullText.fulltxt :
            i \in DOMAIN doc.order =>
                GlyphsOf(GetFullText.fulltxt[i]) = DrawnOn(doc.order[i])

\* The text of a sequence of glyph draws (x, y, character) with a newline between two glyphs
\* exactly when their y differ, and none before the first.
LinesOf(g) ==
    LET F[i \in 0..Len(g)] ==
            IF i = 0 THEN <<>>
            ELSE IF i > 1 /\ g[i][2] # g[i-1][2]
                 THEN F[i-1] \o <<"\n", g[i][3]>>
            ELSE Append(F[i-1], g[i][3])
    IN  F[Len(g)]

\* C28: in a page string of GetFullText a newline stands between two
\* consecutive glyphs exactly when their y-coordinates differ and none
\* stands before the first glyph (implied spaces left aside): a page whose
\* glyphs share one y gives the concatenation of their characters.
C28_NewlineBetweenRows ==
    (rpc = "done" /\ CalledWithCb /\ Len(GetFullText.fulltxt) = 1) =>
        SelectSeq(GetFullText.fulltxt[1], LAMBDA ch : ch # " ") = LinesOf(GlyphDraws)

----------------------------------------------------------------------------
(* The flate decoder, decoder/flate.py: FlateDecode on data already         *)
(* inflated, and the PNG Up predictor                                       *)

MaxRows == 2

MaxColumns == 2

\* The byte values the inflated data is made of; 2 is also the predictor
\* code of PNG Up.
Bytes == {2, 200}

\* Everything but the functions is left alone while they are called.
OthersIdle ==
    /\ XIdle
    /\ CIdle
    /\ LIdle
    /\ RIdle
    /\ objmap = EmptyMap

\* A Python index into a sequence of length n: negative ones count from
\* the end.
PyIndex(i, n) ==
    IF i < 0 THEN i + n ELSE i

\* PNG_Up, lines 38-116.  ret is kept as a function on 0..len(data)-1; the
\* loop visits the indices of data in order, r and c being row and column
\* of the index.
PNG_Up(data, parms) ==
    IF "Columns" \notin DOMAIN parms THEN [ok |-> FALSE, val |-> "ValueError"]
    ELSE LET col == parms["Columns"]
             n == Len(data)
         IN  IF n % (col + 1) # 0 THEN [ok |-> FALSE, val |-> "ValueError"]
             ELSE LET F[k \in 0..n] ==
                        IF k = 0 THEN [ok |-> TRUE, ret |-> [i \in 0..(n - 1) |-> 0]]
                        ELSE LET idx == k - 1
                                 r == idx \div (col + 1)
                                 c == idx % (col + 1)
                                 prev == F[k - 1]
                                 previdx == (r - 1) * col + (c - 1)
                                 nowidx == r * col + (c - 1)
                             IN  IF ~prev.ok THEN prev
                                 ELSE IF c = 0
                                      THEN IF r > 0 /\ data[idx + 1] # 2
                                           THEN [prev EXCEPT !.ok = FALSE]
                                           ELSE prev
                                 ELSE [prev EXCEPT !.ret[nowidx] =
                                            (data[idx + 1] + prev.ret[PyIndex(previdx, n)]) % 256]
                  IN  IF F[n].ok THEN [ok |-> TRUE, val |-> [i \in 1..n |-> F[n].ret[i - 1]]]
                      ELSE [ok |-> FALSE, val |-> "ValueError"]

\* FlateDecode, lines 8-36, from the inflated data on.
FlateDecode(uncomp, parms) ==
    IF "Predictor" \notin DOMAIN parms THEN [ok |-> FALSE, val |-> "KeyError"]
    ELSE IF parms["Predictor"] = 0 THEN [ok |-> TRUE, val |-> uncomp]
    ELSE IF parms["Predictor"] = 12 THEN PNG_Up(uncomp, parms)
    ELSE [ok |-> FALSE, val |-> "NotImplementedError"]

\* The decode parameters: with or without Columns, the predictors 0 (none),
\* 2 (TIFF) and 12 (PNG Up).
FlateParms ==
    { [k \in {"Predictor"} |-> p] : p \in {0, 2, 12} }
    \cup { [k \in {"Predictor", "Columns"} |-> IF k = "Predictor" THEN 12 ELSE c] :
            c \in 1..MaxColumns }
    \cup { [k \in {"Predictor", "Columns"} |-> IF k = "Predictor" THEN 12 ELSE 3] }

\* The inflated data: all byte strings of up to MaxRows rows of up to
\* MaxColumns + 1 bytes, and the example of the predictor's description.
FlateData ==
    UNION { [1..n -> Bytes] : n \in 0..(MaxRows * (MaxColumns + 1)) }
    \cup { <<2, 2, 3, 4, 2, 5, 0, 1>> }

FlateInit ==
    /\ OthersIdle
    /\ fin \in { [fn |-> "FlateDecode", data |-> d, parms |-> q] : d \in FlateData, q \in FlateParms }
    /\ fout = <<>>
    /\ fpc = "call"

CallFlateDecode ==
    /\ fpc = "call"
    /\ fin.fn = "FlateDecode"
    /\ LET r == FlateDecode(fin.data, fin.parms)
       IN  /\ fout' = r.val
           /\ fpc' = IF r.ok THEN "returned" ELSE "raised"
    /\ UNCHANGED fin
    /\ UNCHANGED <<xvars, cvars, lvars, rvars>>

FlateNext ==
    CallFlateDecode

SpecFlate ==
    FlateInit /\ [][FlateNext]_vars

\* The rows the claim speaks of: the data is R rows of Columns + 1 bytes,
\* each led by the predictor byte 2.
IsPngUpInput ==
    /\ fin.fn = "FlateDecode"
    /\ DOMAIN fin.parms = {"Predictor", "Columns"}
    /\ fin.parms["Predictor"] = 12
    /\ Len(fin.data) % (fin.parms["Columns"] + 1) = 0
    /\ \A i \in DOMAIN fin.data : (i - 1) % (fin.parms["Columns"] + 1) = 0 => fin.data[i] = 2

\* Output byte number k (from 1) of the decoding the claim describes.
RECURSIVE UpByte(_, _, _)
UpByte(data, col, k) ==
    IF k < 1 THEN 0
    ELSE LET r == (k - 1) \div col
             c == (k - 1) % col
         IN  (data[r * (col + 1) + c + 2] + UpByte(data, col, k - col)) % 256

\* C13: PNG Up turns R rows of Columns + 1 bytes into exactly R * Columns
\* bytes, each the sum mod 256 of its input byte and the output byte above
\* it; the bytes 2 2 3 4 2 5 0 1 with Columns 3 decode to 2 3 4 7 3 5.
C13_PngUpDecodes ==
    (fpc # "call" /\ IsPngUpInput) =>
        LET col == fin.parms["Columns"]
            R == Len(fin.data) \div (col + 1)
        IN  /\ fpc = "returned"
            /\ fout = [k \in 1..(R * col) |-> UpByte(fin.data, col, k)]

----------------------------------------------------------------------------
(* Stream bodies: TokenizeString of parser/pdf.py 118-233 on the text of    *)
(* one stream object, and its caller _LoadObject, parser/__init__.py        *)
(* 361-410                                                                  *)

MaxLength == 3

\* The object numbers a Length reference can name.
LengthObjIds == {1, 2, 3}

\* The stream objects lexed.  length tells how the dictionary gives Length:
\* "int" (the integer n), "ref" (the reference `refnum 0 R` to an object
\* holding the integer n) or "none" (no Length key); the body is n bytes
\* long (0 without Length); lexes tells whether the text that follows a cut
\* made at another place than the end of the body is made of tokens.
StreamObjects ==
    { [length |-> k, n |-> n, refnum |-> q, lexes |-> x] :
        k \in {"int", "ref", "none"}, n \in 0..MaxLength, q \in LengthObjIds \cup {0},
        x \in BOOLEAN }

WellFormedStreamObject(o) ==
    /\ o.length = "ref" <=> o.refnum # 0
    /\ o.length = "none" => o.n = 0

\* What the lexer makes of the object's text up to the stream keyword.
LexToken(type, value) ==
    [type |-> type, value |-> <<value>>]

StreamObjectTokens(o) ==
    << LexToken("INT", 9), LexToken("INT", 0), LexToken("obj", "obj"),
       LexToken("DICT_START", "<<") >>
    \o ( IF o.length = "int" THEN << LexToken("NAME", "Length"), LexToken("INT", o.n) >>
         ELSE IF o.length = "ref"
              THEN << LexToken("NAME", "Length"), LexToken("INT", o.refnum),
                      LexToken("INT", 0), LexToken("indirect", "R") >>
         ELSE <<>> )
    \o << LexToken("NAME", "Filter"), LexToken("NAME", "FlateDecode"),
          LexToken("DICT_END", ">>"), LexToken("stream", "stream") >>

\* Lines 133-158: streamlength = [saw /Length, the INT that followed] over
\* the tokens before the stream keyword.
StreamLengthSeen(toks) ==
    LET F[i \in 0..Len(toks)] ==
            IF i = 0 THEN [saw |-> FALSE, len |-> 0]
            ELSE LET t == toks[i]
                     a == IF t.type = "NAME" /\ t.value = <<"Length">>
                          THEN [saw |-> TRUE, len |-> -1] ELSE F[i-1]
                     b == IF t.type = "INT" /\ a.saw
                          THEN [saw |-> FALSE, len |-> t.value[1]] ELSE a
                 IN  IF t.type = "DICT_END" THEN [b EXCEPT !.saw = FALSE] ELSE b
    IN  F[Len(toks)]

\* TokenizeString on the object's text, stoptoken "endobj": the result
\* tells how many bytes the stream token holds (<<>>: the token was dropped
\* with its value None).  A cut at the end of the body is followed by
\* endstream and endobj; after any other cut the lexer goes on in the middle
\* of the body or past it, and t_error raises unless that text lexes.
TokenizeString(o) ==
    LET toks == StreamObjectTokens(o)
        sl == StreamLengthSeen(SubSeq(toks, 1, Len(toks) - 1)).len
    IN  IF sl < 0 THEN [ok |-> o.lexes \/ o.n = 0, val |-> [captured |-> <<>>]]
        ELSE IF sl = o.n THEN [ok |-> TRUE, val |-> [captured |-> <<sl>>]]
        ELSE IF o.lexes THEN [ok |-> TRUE, val |-> [captured |-> <<sl>>]]
        ELSE [ok |-> FALSE, val |-> [captured |-> <<>>]]

\* _LoadObject, line 371: TokenizeString is called with the keyword
\* streamlength, which it does not take: TypeError, and finding the except
\* clause's NeedStreamLegnthError in the lexer module raises AttributeError.
LoadObjectTokens(o) ==
    [ok |-> FALSE, val |-> [captured |-> <<>>]]

StreamInit ==
    /\ OthersIdle
    /\ fin \in { [fn |-> f, obj |-> o] :
                    f \in {"TokenizeString", "_LoadObject"},
                    o \in {o \in StreamObjects : WellFormedStreamObject(o)} }
    /\ fout = <<>>
    /\ fpc = "call"

CallTokenizeString ==
    /\ fpc = "call"
    /\ fin.fn = "TokenizeString"
    /\ LET r == TokenizeString(fin.obj)
       IN  /\ fout' = r.val
           /\ fpc' = IF r.ok THEN "returned" ELSE "raised"
    /\ UNCHANGED fin
    /\ UNCHANGED <<xvars, cvars, lvars, rvars>>

Call_LoadObject ==
    /\ fpc = "call"
    /\ fin.fn = "_LoadObject"
    /\ LET r == LoadObjectTokens(fin.obj)
       IN  /\ fout' = r.val
           /\ fpc' = IF r.ok THEN "returned" ELSE "raised"
    /\ UNCHANGED fin
    /\ UNCHANGED <<xvars, cvars, lvars, rvars>>

StreamNext ==
    \/ CallTokenizeString
    \/ Call_LoadObject

SpecStream ==
    StreamInit /\ [][StreamNext]_vars

\* C14: the stream token of an object that was lexed holds as many bytes as
\* the integer its Length resolves to, be Length an integer or a reference;
\* it is never sized by the number of the referenced object nor left
\* without its bytes.
C14_StreamSizedByLength ==
    (fpc = "returned" /\ fin.obj.length \in {"int", "ref"}) =>
        fout.captured = <<fin.obj.n>>

----------------------------------------------------------------------------
(* CID widths: CIDWidthArrayToMap, fontcache.py 411-445                     *)

MaxGroups == 2

Cids == {1, 2, 3}

\* The elements of a W array: integers, reals and arrays of widths.
PyInt(n) == [type |-> "int", v |-> <<n>>]

PyFloat(n) == [type |-> "float", v |-> <<n>>]

PyArray(a) == [type |-> "Array", v |-> a]

Widths == {PyInt(500), PyFloat(250)}

\* The groups of a W array: `start [w0 ... wn]` and `lo hi w`.
WidthGroups ==
    { [form |-> "list", lo |-> c, hi |-> c + Len(w) - 1, w |-> w] :
        c \in Cids, w \in UNION { [1..n -> Widths] : n \in 1..2 } }
    \cup { [form |-> "range", lo |-> lo, hi |-> hi, w |-> <<w>>] :
            lo \in Cids, hi \in Cids, w \in Widths }

\* The valid W arrays, as their groups in order: the ranges are not empty
\* and no two of them overlap.
WidthArrays ==
    { g \in UNION { [1..n -> WidthGroups] : n \in 0..MaxGroups } :
        /\ \A i \in DOMAIN g : g[i].lo <= g[i].hi
        /\ \A i, j \in DOMAIN g : i # j => (g[i].hi < g[j].lo \/ g[j].hi < g[i].lo) }

\* The array a file gives for the groups.
RECURSIVE WArray(_)
WArray(g) ==
    IF g = <<>> THEN <<>>
    ELSE ( IF Head(g).form = "list" THEN << PyInt(Head(g).lo), PyArray(Head(g).w) >>
           ELSE << PyInt(Head(g).lo), PyInt(Head(g).hi), Head(g).w[1] >> )
         \o WArray(Tail(g))

\* A dict with the key k set to v.
DictSet(d, k, v) ==
    [j \in DOMAIN d \cup {k} |-> IF j = k THEN v ELSE d[j]]

\* Lines 426-428: the widths of an array from basecode on.
RECURSIVE SetFrom(_, _, _)
SetFrom(mapdat, basecode, ws) ==
    IF ws = <<>> THEN mapdat
    ELSE SetFrom(DictSet(mapdat, basecode, Head(ws)), basecode + 1, Tail(ws))

\* Lines 436-437: one width for lo..hi.
RECURSIVE SetRange(_, _, _, _)
SetRange(mapdat, lo, hi, w) ==
    IF lo > hi THEN mapdat
    ELSE SetRange(DictSet(mapdat, lo, w), lo + 1, hi, w)

\* An element past the end of the array: reading it raises IndexError.
TypeAt(arr, i) ==
    IF i \in DOMAIN arr THEN arr[i].type ELSE "IndexError"

\* Lines 417-445, from index i (counted from 1) with the map so far.
RECURSIVE WidthLoop(_, _, _)
WidthLoop(arr, i, mapdat) ==
    IF i > Len(arr) THEN [ok |-> TRUE, val |-> mapdat]
    ELSE IF TypeAt(arr, i) = "int" /\ TypeAt(arr, i + 1) = "IndexError"
         THEN [ok |-> FALSE, val |-> "IndexError"]
    ELSE IF TypeAt(arr, i) = "int" /\ TypeAt(arr, i + 1) = "Array"
         THEN WidthLoop(arr, i + 2, SetFrom(mapdat, arr[i].v[1], arr[i + 1].v))
    ELSE IF TypeAt(arr, i) = "int" /\ TypeAt(arr, i + 1) = "int" /\ TypeAt(arr, i + 2) = "IndexError"
         THEN [ok |-> FALSE, val |-> "IndexError"]
    ELSE IF TypeAt(arr, i) = "int" /\ TypeAt(arr, i + 1) = "int" /\ TypeAt(arr, i + 2) = "int"
         THEN WidthLoop(arr, i + 3, SetRange(mapdat, arr[i].v[1], arr[i + 1].v[1], arr[i + 2]))
    ELSE [ok |-> FALSE, val |-> "TypeError"]

CIDWidthArrayToMap(arr) ==
    WidthLoop(arr, 1, EmptyMap)

WidthsInit ==
    /\ OthersIdle
    /\ fin \in { [fn |-> "CIDWidthArrayToMap", groups |-> g, arr |-> WArray(g)] : g \in WidthArrays }
    /\ fout = <<>>
    /\ fpc = "call"

CallCIDWidthArrayToMap ==
    /\ fpc = "call"
    /\ fin.fn = "CIDWidthArrayToMap"
    /\ LET r == CIDWidthArrayToMap(fin.arr)
       IN  /\ fout' = r.val
           /\ fpc' = IF r.ok THEN "returned" ELSE "raised"
    /\ UNCHANGED fin
    /\ UNCHANGED <<xvars, cvars, lvars, rvars>>

WidthsNext ==
    CallCIDWidthArrayToMap

SpecWidths ==
    WidthsInit /\ [][WidthsNext]_vars

\* The group of g that covers cid.
GroupOf(g, cid) ==
    CHOOSE i \in DOMAIN g : g[i].lo <= cid /\ cid <= g[i].hi

\* C15: for a valid W array the map returned sends start+i to wi for every
\* group `start [w0 ... wn]` and every cid of lo..hi to w for every group
\* `lo hi w`, integer or real widths alike, and has no other key; being a
\* function of the groups alone it is the same for every order of them.
C15_WidthMapOfGroups ==
    fpc # "call" =>
        /\ fpc = "returned"
        /\ LET g == fin.groups
               covered == UNION { g[i].lo..g[i].hi : i \in DOMAIN g }
           IN  fout = [c \in covered |->
                         LET grp == g[GroupOf(g, c)]
                         IN  IF grp.form = "list" THEN grp.w[c - grp.lo + 1] ELSE grp.w[1]]

----------------------------------------------------------------------------
(* Glyphs of a font with a named encoding: FontCache.GetGlyph_Enc_str,      *)
(* fontcache.py 99-136                                                      *)

MaxWidths == 3

\* The codes asked for: a control code, A to D, a code WinAnsiEncoding
\* leaves unused, and the bullet of WinAnsiEncoding (octal 225).
Codes == {20, 65, 66, 67, 68, 129, 149}

\* MapCIDToGlyphName for the encoding, over Codes.
EncodingMap(enc) ==
    IF enc = "WinAnsiEncoding" THEN {65, 66, 67, 68, 149} ELSE {65, 66, 67, 68}

\* Fonts: the encoding name, FirstChar, LastChar and the Widths array, whose
\* entry at index j (from 0) is 100 * (j + 1).
Fonts ==
    { [Encoding |-> e, FirstChar |-> a, LastChar |-> b, Widths |-> [k \in 1..n |-> 100 * k]] :
        e \in {"WinAnsiEncoding", "StandardEncoding"}, a \in {65, 66, 67}, b \in 65..68,
        n \in 0..MaxWidths }

\* A Python list read at index j: negative indices count from the end.
ListAt(w, j) ==
    IF j >= Len(w) \/ j < 0 - Len(w) THEN [ok |-> FALSE, val |-> 0]
    ELSE [ok |-> TRUE, val |-> w[PyIndex(j, Len(w)) + 1]]

\* Lines 111-114: an unused code above octal 40 is the bullet in
\* WinAnsiEncoding.
Remap(f, cid) ==
    IF cid \notin EncodingMap(f.Encoding) /\ f.Encoding = "WinAnsiEncoding" /\ cid > 32
    THEN 149 ELSE cid

\* Lines 99-136.
GetGlyph_Enc_str(f, cid0) ==
    LET cid == Remap(f, cid0)
    IN  IF cid \notin EncodingMap(f.Encoding) THEN [ok |-> FALSE, val |-> "ValueError"]
        ELSE IF cid - f.FirstChar > Len(f.Widths) THEN [ok |-> FALSE, val |-> "KeyError"]
        ELSE LET w == ListAt(f.Widths, cid - f.FirstChar)
             IN  IF ~w.ok THEN [ok |-> FALSE, val |-> "IndexError"]
                 ELSE [ok |-> TRUE, val |-> [cid |-> cid, width |-> w.val]]

GlyphInit ==
    /\ OthersIdle
    /\ fin \in { [fn |-> "GetGlyph_Enc_str", f |-> f, cid |-> c] : f \in Fonts, c \in Codes }
    /\ fout = <<>>
    /\ fpc = "call"

CallGetGlyph_Enc_str ==
    /\ fpc = "call"
    /\ fin.fn = "GetGlyph_Enc_str"
    /\ LET r == GetGlyph_Enc_str(fin.f, fin.cid)
       IN  /\ fout' = r.val
           /\ fpc' = IF r.ok THEN "returned" ELSE "raised"
    /\ UNCHANGED fin
    /\ UNCHANGED <<xvars, cvars, lvars, rvars>>

GlyphNext ==
    CallGetGlyph_Enc_str

SpecGlyph ==
    GlyphInit /\ [][GlyphNext]_vars

\* C16: a Glyph is returned only for a code c (the bullet's, for a code
\* remapped to it) with FirstChar <= c <= LastChar whose index c - FirstChar
\* the widths array covers, and its width is then Widths[c - FirstChar];
\* every other code is rejected with an error.
C16_GlyphRangeChecked ==
    fpc = "returned" =>
        LET c == fout.cid
            f == fin.f
        IN  /\ f.FirstChar <= c
            /\ c <= f.LastChar
            /\ c - f.FirstChar < Len(f.Widths)
            /\ fout.width = f.Widths[c - f.FirstChar + 1]

----------------------------------------------------------------------------
(* CMaps: CMapTokenizer.BuildMapper, parser/__init__.py 923-1026            *)

MaxCode == 3

SourceCodes == 1..MaxCode

\* A CMap: at most one bfchar pair, one bfrange triple and one cidrange
\* triple, each in its own block; targets are code points (50 for bfchar,
\* from 60 on for bfrange, from 70 on for cidrange).
CMaps ==
    { [bfchar |-> a, bfrange |-> b, cidrange |-> c] :
        a \in {<<>>} \cup { << <<s, 50>> >> : s \in SourceCodes },
        b \in {<<>>} \cup { << <<lo, hi, 60>> >> : lo \in SourceCodes, hi \in SourceCodes },
        c \in {<<>>} \cup { << <<lo, hi, 70>> >> : lo \in SourceCodes, hi \in SourceCodes } }

WellFormedCMap(m) ==
    /\ \A i \in DOMAIN m.bfrange : m.bfrange[i][1] <= m.bfrange[i][2]
    /\ \A i \in DOMAIN m.cidrange : m.cidrange[i][1] <= m.cidrange[i][2]

CTok(type, value) ==
    [type |-> type, value |-> value]

\* The tokens of the CMap program: each block between its begin and end
\* operators, bfchar and bfrange entries as CODE tokens, cidrange entries as
\* two CODE tokens and an INT.
RECURSIVE CodeToks(_)
CodeToks(entries) ==
    IF entries = <<>> THEN <<>>
    ELSE [i \in DOMAIN Head(entries) |-> CTok("CODE", Head(entries)[i]) ] \o CodeToks(Tail(entries))

RECURSIVE CidToks(_)
CidToks(entries) ==
    IF entries = <<>> THEN <<>>
    ELSE << CTok("CODE", Head(entries)[1]), CTok("CODE", Head(entries)[2]),
            CTok("INT", Head(entries)[3]) >> \o CidToks(Tail(entries))

CMapTokens(m) ==
    ( IF m.bfchar = <<>> THEN <<>>
      ELSE <<CTok("beginbfchar", 0)>> \o CodeToks(m.bfchar) \o <<CTok("endbfchar", 0)>> )
    \o ( IF m.bfrange = <<>> THEN <<>>
         ELSE <<CTok("beginbfrange", 0)>> \o CodeToks(m.bfrange) \o <<CTok("endbfrange", 0)>> )
    \o ( IF m.cidrange = <<>> THEN <<>>
         ELSE <<CTok("begincidrange", 0)>> \o CidToks(m.cidrange) \o <<CTok("endcidrange", 0)>> )

\* The codes collected between the first begin and its end (lines 933-951,
\* 954-979): <<>> when there is no such block.
BlockCodes(toks, begin, end) ==
    LET F[i \in 0..Len(toks)] ==
            IF i = 0 THEN [mapon |-> FALSE, done |-> FALSE, codes |-> <<>>]
            ELSE LET p == F[i-1]
                     t == toks[i]
                 IN  IF p.done THEN p
                     ELSE IF t.type = begin THEN [p EXCEPT !.mapon = TRUE]
                     ELSE IF p.mapon /\ t.type = end THEN [p EXCEPT !.mapon = FALSE, !.done = TRUE]
                     ELSE IF p.mapon THEN [p EXCEPT !.codes = Append(@, t)]
                     ELSE p
    IN  IF F[Len(toks)].done THEN F[Len(toks)].codes ELSE <<>>

\* Lines 942-943: mapdat[codes[i]] = chr(codes[i+1]).
RECURSIVE MapChars(_, _)
MapChars(mapdat, codes) ==
    IF Len(codes) < 2 THEN mapdat
    ELSE MapChars(DictSet(mapdat, codes[1].value, codes[2].value), SubSeq(codes, 3, Len(codes)))

\* Lines 963-969: mapdat[k] = chr(offset + (k - codes[i])) for the codes of
\* each range.
RECURSIVE MapOffsets(_, _, _, _)
MapOffsets(mapdat, lo, k, base) ==
    IF k < lo THEN mapdat
    ELSE MapOffsets(DictSet(mapdat, k, base + (k - lo)), lo, k - 1, base)

RECURSIVE MapRanges(_, _)
MapRanges(mapdat, codes) ==
    IF Len(codes) < 3 THEN mapdat
    ELSE MapRanges(MapOffsets(mapdat, codes[1].value, codes[2].value, codes[3].value),
                   SubSeq(codes, 4, Len(codes)))

\* Lines 991-1002: the (start, end, base) triples of the cidrange block.
RECURSIVE CidRanges(_)
CidRanges(codes) ==
    IF Len(codes) < 3 THEN {}
    ELSE {<<codes[1].value, codes[2].value, codes[3].value>>}
         \cup CidRanges(SubSeq(codes, 4, Len(codes)))

\* Lines 923-1004: mapdat and rangedat as BuildMapper leaves them.
BuildMapper(toks) ==
    [mapdat |-> MapRanges(MapChars(EmptyMap, BlockCodes(toks, "beginbfchar", "endbfchar")),
                          BlockCodes(toks, "beginbfrange", "endbfrange")),
     rangedat |-> CidRanges(BlockCodes(toks, "begincidrange", "endcidrange"))]

\* Lines 1006-1024: mapper(c) for an int c; the string returned is given by
\* its code point.
mapper(built, cc) ==
    IF cc \in DOMAIN built.mapdat THEN [ok |-> TRUE, val |-> built.mapdat[cc]]
    ELSE IF \E r \in built.rangedat : cc >= r[1] /\ cc <= r[2]
         THEN LET r == CHOOSE r \in built.rangedat : cc >= r[1] /\ cc <= r[2]
              IN  [ok |-> TRUE, val |-> r[3] + (cc - r[1])]
    ELSE [ok |-> FALSE, val |-> 0]

CMapInit ==
    /\ OthersIdle
    /\ fin \in { [fn |-> "mapper", cmap |-> m, c |-> c] :
                    m \in {m \in CMaps : WellFormedCMap(m)}, c \in SourceCodes \cup {MaxCode + 1} }
    /\ fout = <<>>
    /\ fpc = "call"

CallMapper ==
    /\ fpc = "call"
    /\ fin.fn = "mapper"
    /\ LET r == mapper(BuildMapper(CMapTokens(fin.cmap)), fin.c)
       IN  /\ fout' = <<r.val>>
           /\ fpc' = IF r.ok THEN "returned" ELSE "raised"
    /\ UNCHANGED fin
    /\ UNCHANGED <<xvars, cvars, lvars, rvars>>

CMapNext ==
    CallMapper

SpecCMap ==
    CMapInit /\ [][CMapNext]_vars

\* The targets the range segments of the CMap give for c.
SegmentsOf(m) ==
    { m.bfrange[i] : i \in DOMAIN m.bfrange } \cup { m.cidrange[i] : i \in DOMAIN m.cidrange }

RangeTargets(m, c) ==
    { r[3] + (c - r[1]) : r \in { r \in SegmentsOf(m) : r[1] <= c /\ c <= r[2] } }

CharTargets(m, c) ==
    { m.bfchar[i][2] : i \in { i \in DOMAIN m.bfchar : m.bfchar[i][1] = c } }

\* C17: the mapper built from a CMap looks a code up in the single-character
\* mappings first, so a code listed there maps to its listed target even when
\* it also lies inside a range segment; otherwise a code inside a segment
\* [lo, hi] with base b maps to b + (c - lo); a code found in neither raises.
C17_CharMappingsFirst ==
    (fpc \in {"returned", "raised"} /\ fin.fn = "mapper") =>
        IF CharTargets(fin.cmap, fin.c) # {}
        THEN fpc = "returned" /\ fout[1] \in CharTargets(fin.cmap, fin.c)
        ELSE IF RangeTargets(fin.cmap, fin.c) # {}
        THEN fpc = "returned" /\ fout[1] \in RangeTargets(fin.cmap, fin.c)
        ELSE fpc = "raised"

----------------------------------------------------------------------------
(* Hex strings: RenderPage 413-430, GetTokenString 566-575 and SplitHex      *)
(* 639-658 of __init__.py                                                    *)

MaxDigits == 4

\* Hex digits by value: '0', '1' and 'B'.
HexDigits == {0, 1, 11}

\* The value of a HEXSTRING token: the digits between the brackets, at least
\* one (parser/text.py 221-226).
HexTexts ==
    UNION { [1..n -> HexDigits] : n \in 1..MaxDigits }

\* f.Encoding: a name, given by its characters, or an encoding dictionary.
FontEncodings ==
    { [isstr |-> TRUE, name |-> <<"I","d","e","n","t","i","t","y","-","H">>],
      [isstr |-> TRUE, name |-> <<"W","i","n","A","n","s","i","E","n","c","o","d","i","n","g">>],
      [isstr |-> FALSE, name |-> <<>>] }

\* str.startswith.
startswith(str, prefix) ==
    /\ Len(str) >= Len(prefix)
    /\ SubSeq(str, 1, Len(prefix)) = prefix

\* int(txt, 16).
RECURSIVE IntBase16(_)
IntBase16(txt) ==
    IF txt = <<>> THEN 0
    ELSE 16 * IntBase16(SubSeq(txt, 1, Len(txt) - 1)) + txt[Len(txt)]

\* The list comprehension of line 658, characters given by their code points.
RECURSIVE HexChars(_, _)
HexChars(txt, n) ==
    IF txt = <<>> THEN <<>>
    ELSE IF Len(txt) < n THEN <<IntBase16(txt)>>
    ELSE <<IntBase16(SubSeq(txt, 1, n))>> \o HexChars(SubSeq(txt, n + 1, Len(txt)), n)

\* bytesize is <<>> for None.
SplitHex(txt, bytesize) ==
    IF bytesize = <<>> THEN [ok |-> FALSE, val |-> <<>>]
    ELSE LET padded == IF Len(txt) % 2 = 1 THEN Append(txt, 0) ELSE txt
         IN  IF Len(padded) % (bytesize[1] * 2) # 0 THEN [ok |-> FALSE, val |-> <<>>]
             ELSE [ok |-> TRUE, val |-> HexChars(padded, bytesize[1] * 2)]

GetTokenString(t, bytesize) ==
    IF t.type = "HEXSTRING" THEN SplitHex(t.value, bytesize)
    ELSE [ok |-> FALSE, val |-> <<>>]

\* Lines 418-428 of RenderPage: the characters of a HEXSTRING subtoken of Tj
\* or TJ under the font f.
HexSubtokText(f, subtok) ==
    IF f.Encoding.isstr
    THEN IF startswith(f.Encoding.name, <<"I","d","e","n","t","i","t","y">>)
         THEN GetTokenString(subtok, <<2>>)
         ELSE [ok |-> FALSE, val |-> <<>>]
    ELSE [ok |-> FALSE, val |-> <<>>]

HexInit ==
    /\ OthersIdle
    /\ fin \in { [fn |-> "hexstring", f |-> [Encoding |-> e],
                  subtok |-> [type |-> "HEXSTRING", value |-> txt]] :
                    e \in FontEncodings, txt \in HexTexts }
    /\ fout = <<>>
    /\ fpc = "call"

CallHexSubtokText ==
    /\ fpc = "call"
    /\ fin.fn = "hexstring"
    /\ LET r == HexSubtokText(fin.f, fin.subtok)
       IN  /\ fout' = r.val
           /\ fpc' = IF r.ok THEN "returned" ELSE "raised"
    /\ UNCHANGED fin
    /\ UNCHANGED <<xvars, cvars, lvars, rvars>>

HexNext ==
    CallHexSubtokText

SpecHex ==
    HexInit /\ [][HexNext]_vars

\* The character codes of a string of hex digits, size bytes each.
RECURSIVE CodesOf(_, _)
CodesOf(txt, size) ==
    IF Len(txt) < 2 * size THEN <<>>
    ELSE LET D(i) == txt[i]
         IN  << IF size = 1 THEN 16 * D(1) + D(2)
                ELSE 4096 * D(1) + 256 * D(2) + 16 * D(3) + D(4) >>
             \o CodesOf(SubSeq(txt, 2 * size + 1, Len(txt)), size)

\* C18: a hex-string operand of Tj or TJ is split into codes of 2 bytes when
\* the font's encoding name begins with "Identity" and of 1 byte otherwise (no
\* fault for a non-Identity encoding), and a string with an odd number of
\* digits decodes as if a 0 digit were appended.
C18_HexStringSplit ==
    (fpc \in {"returned", "raised"} /\ fin.fn = "hexstring") =>
        LET txt == fin.subtok.value
            padded == IF Len(txt) % 2 = 1 THEN Append(txt, 0) ELSE txt
            enc == fin.f.Encoding
            size == IF enc.isstr /\ Len(enc.name) >= 8
                       /\ SubSeq(enc.name, 1, 8) = <<"I","d","e","n","t","i","t","y">>
                    THEN 2 ELSE 1
        IN  Len(padded) % (2 * size) = 0 =>
                fpc = "returned" /\ fout = CodesOf(padded, size)

----------------------------------------------------------------------------
(* Postfix to prefix: TokensPostfixToPrefix, parser/text.py 331-609          *)

MaxLexed == 4

\* The token types drawn for lexed lists: operands and array brackets, one
\* operator of each shape, and Bstar, which the lexer produces (text.py 103)
\* and no branch of TokensPostfixToPrefix names.
LexedTypes ==
    <<"INT", "ARR_START", "ARR_END", "q", "Tj", "Td", "TJ", "SC", "Bstar">>

\* A lexed token list: lexpos is the position of the token in the text.
LexedLists ==
    UNION { { [i \in 1..n |-> [type |-> LexedTypes[c[i]], value |-> <<>>, lexpos |-> i - 1]] :
                c \in [1..n -> DOMAIN LexedTypes] } : n \in 0..MaxLexed }

Operators0 ==
    {"q", "Q", "h", "S", "s", "F", "f", "fstar", "B", "B*", "b", "b*", "n", "W", "Wstar",
     "BT", "ET", "Tstar", "EMC"}

Operators1 ==
    {"w", "J", "j", "M", "ri", "i", "gs", "CS", "cs", "G", "g", "Do", "Tc", "Tw", "Tz",
     "TL", "Tr", "Ts", "Tj", "TstarTj", "MP", "BMC"}

Operators2 ==
    {"m", "l", "Tf", "Td", "TD", "DP", "BDC"}

Operators3 ==
    {"RG", "rg", "TwTcTstarTj"}

Operators4 ==
    {"v", "y", "re", "K", "k"}

Operators6 ==
    {"cm", "c", "Tm"}

PassedTypes ==
    {"INT", "FLOAT", "ARR_START", "ARR_END", "DICT_START", "DICT_END", "NAME", "LIT", "HEXSTRING"}

\* tokens[k] and tokens[a:b] for indices counted from 0.
TokAt(tokens, k) ==
    tokens[k + 1]

TokSlice(tokens, a, b) ==
    SubSeq(tokens, a + 1, b)

PDFToken(type, value, lexpos) ==
    [type |-> type, value |-> value, lexpos |-> lexpos]

FromLexToken(t) ==
    PDFToken(t.type, t.value, t.lexpos)

\* The index at which "while j > 0" stops when it searches downwards from
\* start for a token whose type is in types (member) or is not (~member):
\* the largest such index in 1..start, or where the loop runs out (0, or
\* start when start <= 0).
ScanDown(tokens, start, types, member) ==
    LET hits == { j \in 1..start : (TokAt(tokens, j).type \in types) = member }
    IN  IF hits # {}
        THEN [found |-> TRUE, j |-> CHOOSE j \in hits : \A h \in hits : h <= j]
        ELSE [found |-> FALSE, j |-> IF start > 0 THEN 0 ELSE start]

PFRaise(st) ==
    [st EXCEPT !.raised = TRUE]

\* The branches with a fixed number k of operands (lines 339-516).
PFFixed(tokens, st, i, k) ==
    IF st.lastidx # i - k - 1 THEN PFRaise(st)
    ELSE LET t == TokAt(tokens, i)
             operands == TokSlice(tokens, i - k, i)
         IN  [st EXCEPT !.ret = Append(@, IF k = 0 THEN FromLexToken(t)
                                          ELSE PDFToken(t.type, operands, operands[1].lexpos)),
                        !.lastidx = i]

\* BDC after a dictionary (lines 418-464).
PFDict(tokens, st, i) ==
    LET s == ScanDown(tokens, i - 1, {"DICT_START"}, TRUE)
    IN  IF s.found
        THEN IF st.lastidx # s.j - 2 THEN PFRaise(st)
             ELSE [st EXCEPT !.ret = Append(@, PDFToken("BDC",
                                        << FromLexToken(TokAt(tokens, s.j - 1)),
                                           PDFToken("DICT", TokSlice(tokens, s.j + 1, i - 1), s.j + 1) >>,
                                        s.j - 1)),
                             !.lastidx = i]
        ELSE IF st.lastidx # i - 3 THEN PFRaise(st)
             ELSE [st EXCEPT !.lastidx = i]

\* TJ (lines 519-535) and d (lines 538-552): the array is looked for
\* downwards from start, the operands are tokens[j+1:last] and, for d, the
\* token after the array.
PFArray(tokens, st, i, start, last) ==
    LET s == ScanDown(tokens, start, {"ARR_START"}, TRUE)
        t == TokAt(tokens, i)
        arr == TokSlice(tokens, s.j + 1, last)
    IN  IF st.lastidx # s.j - 1 THEN PFRaise(st)
        ELSE IF s.found
        THEN [st EXCEPT !.ret = Append(@, PDFToken(t.type,
                                   IF t.type = "d"
                                   THEN << PDFToken("list", arr, s.j), FromLexToken(TokAt(tokens, i - 1)) >>
                                   ELSE arr,
                                   s.j)),
                        !.lastidx = i]
        ELSE [st EXCEPT !.lastidx = i]

\* SC, sc (lines 555-575) and SCN, scn (lines 578-601): the operands are the
\* tokens from where the downward scan stops.
PFVariable(tokens, st, i, numeric) ==
    LET s == ScanDown(tokens, i - 1, numeric, FALSE)
        j == IF s.found THEN s.j + 1 ELSE s.j
        t == TokAt(tokens, i)
    IN  IF st.lastidx # j - 1 THEN PFRaise(st)
        ELSE [st EXCEPT !.ret = Append(@, PDFToken(t.type, TokSlice(tokens, j, i), j)),
                        !.lastidx = i]

\* One round of the loop of lines 334-607.
PFStep(tokens, st, i) ==
    LET t == TokAt(tokens, i)
    IN  CASE st.raised -> st
          [] t.type \in Operators0 -> PFFixed(tokens, st, i, 0)
          [] t.type \in Operators1 -> PFFixed(tokens, st, i, 1)
          [] t.type = "BDC" /\ i >= 1 /\ TokAt(tokens, IF i >= 1 THEN i - 1 ELSE 0).type = "DICT_END"
                -> PFDict(tokens, st, i)
          [] t.type \in Operators2 /\ ~(t.type = "BDC" /\ i >= 1
                                        /\ TokAt(tokens, IF i >= 1 THEN i - 1 ELSE 0).type = "DICT_END")
                -> PFFixed(tokens, st, i, 2)
          [] t.type \in Operators3 -> PFFixed(tokens, st, i, 3)
          [] t.type \in Operators4 -> PFFixed(tokens, st, i, 4)
          [] t.type \in Operators6 -> PFFixed(tokens, st, i, 6)
          [] t.type \in {"TJ", "T"} -> PFArray(tokens, st, i, i - 1, i - 1)
          [] t.type = "d" -> PFArray(tokens, st, i, i - 2, i - 2)
          [] t.type \in {"SC", "sc"} -> PFVariable(tokens, st, i, {"INT", "FLOAT"})
          [] t.type \in {"SCN", "scn"} -> PFVariable(tokens, st, i, {"INT", "FLOAT", "LIT"})
          [] t.type \in PassedTypes -> st
          [] OTHER -> PFRaise(st)

TokensPostfixToPrefix(tokens) ==
    LET F[i \in 0..Len(tokens)] ==
            IF i = 0 THEN [ret |-> <<>>, lastidx |-> -1, raised |-> FALSE]
            ELSE PFStep(tokens, F[i - 1], i - 1)
        st == F[Len(tokens)]
    IN  IF st.raised THEN [ok |-> FALSE, val |-> [tokens |-> <<>>, residual |-> <<>>]]
        ELSE [ok |-> TRUE,
              val |-> [tokens |-> st.ret, residual |-> TokSlice(tokens, st.lastidx + 1, Len(tokens))]]

PrefixInit ==
    /\ OthersIdle
    /\ fin \in { [fn |-> "TokensPostfixToPrefix", tokens |-> l] : l \in LexedLists }
    /\ fout = <<>>
    /\ fpc = "call"

CallTokensPostfixToPrefix ==
    /\ fpc = "call"
    /\ fin.fn = "TokensPostfixToPrefix"
    /\ LET r == TokensPostfixToPrefix(fin.tokens)
       IN  /\ fout' = <<r.val>>
           /\ fpc' = IF r.ok THEN "returned" ELSE "raised"
    /\ UNCHANGED fin
    /\ UNCHANGED <<xvars, cvars, lvars, rvars>>

PrefixNext ==
    CallTokensPostfixToPrefix

SpecPrefix ==
    PrefixInit /\ [][PrefixNext]_vars

\* The operator tokens of a lexed list, in source order.
IsOperatorTok(t) ==
    t.type \notin PassedTypes

OperatorsOf(tokens) ==
    SelectSeq(tokens, IsOperatorTok)

\* The positions of the operands the operator at position p consumes: the k
\* tokens before it for an operator of arity k, the contents of the array
\* that ends just before it for TJ, the run of numbers before it for SC.
OperandPositions(tokens, p, type) ==
    CASE type = "q" -> {}
      [] type = "Tj" -> {p - 1}
      [] type = "Td" -> {p - 2, p - 1}
      [] type = "TJ" ->
            { x \in 0..(p - 2) :
                \E a \in 0..(p - 2) :
                    /\ tokens[a + 1].type = "ARR_START"
                    /\ a < x
                    /\ \A y \in (a + 1)..(p - 2) : tokens[y + 1].type # "ARR_START" }
      [] type = "SC" ->
            { x \in 0..(p - 1) : \A y \in x..(p - 1) : tokens[y + 1].type = "INT" }
      [] OTHER -> {}

\* How many times the token at position p is bound to an operator or
\* returned in the residual.
TimesKept(out, p) ==
    Cardinality({ <<k, m>> \in (DOMAIN out.tokens) \X (1..MaxLexed + 1) :
                    m \in DOMAIN out.tokens[k].value /\ out.tokens[k].value[m].lexpos = p })
    + Cardinality({ m \in DOMAIN out.residual : out.residual[m].lexpos = p })

\* C19: TokensPostfixToPrefix emits one prefix token per operator, in source
\* order, whose operands are exactly the tokens before the operator that its
\* arity names (the array for TJ, the run of numbers for SC); every operand
\* token is bound to exactly one operator or returned in the residual; and an
\* operator token of unknown type raises.
C19_OperandsBoundOnce ==
    (fpc \in {"returned", "raised"} /\ fin.fn = "TokensPostfixToPrefix") =>
        LET tokens == fin.tokens
            ops == OperatorsOf(tokens)
        IN  /\ (\E i \in DOMAIN tokens : tokens[i].type = "Bstar") => fpc = "raised"
            /\ fpc = "returned" =>
                 LET out == fout[1]
                 IN  /\ Len(out.tokens) = Len(ops)
                     /\ \A k \in DOMAIN out.tokens :
                            /\ out.tokens[k].type = ops[k].type
                            /\ { out.tokens[k].value[m].lexpos : m \in DOMAIN out.tokens[k].value }
                                 = OperandPositions(tokens, ops[k].lexpos, ops[k].type)
                     /\ \A i \in DOMAIN tokens :
                            tokens[i].type = "INT" => TimesKept(out, tokens[i].lexpos) = 1

----------------------------------------------------------------------------
(* Token consolidation: ConsolidateTokens, ConsolidateTokensClass and        *)
(* TokenIterator, parser/pdf.py 236-510                                      *)

MaxItems == 2

\* Token objects live in a heap, a sequence indexed by object identity; a
\* token list is a sequence of identities.  The value of a token is <<n>>
\* for an INT, <<>> for a token that carries its lexeme only, and the
\* consolidated contents for the tokens the passes build.
LexTok(type, value) ==
    [type |-> type, value |-> value]

\* The token groups lists are made of: a number, a name, a dictionary with
\* one entry, one with a key only, a nested dictionary, an array holding a
\* dictionary, an indirect reference, an xref section of one row, an object
\* and a trailer.
ItemTypes ==
    << << LexTok("INT", <<7>>) >>,
       << LexTok("NAME", <<>>) >>,
       << LexTok("DICT_START", <<>>), LexTok("NAME", <<>>), LexTok("INT", <<1>>),
          LexTok("DICT_END", <<>>) >>,
       << LexTok("DICT_START", <<>>), LexTok("NAME", <<>>), LexTok("DICT_END", <<>>) >>,
       << LexTok("DICT_START", <<>>), LexTok("NAME", <<>>),
          LexTok("DICT_START", <<>>), LexTok("NAME", <<>>), LexTok("INT", <<1>>),
          LexTok("DICT_END", <<>>), LexTok("DICT_END", <<>>) >>,
       << LexTok("ARR_START", <<>>), LexTok("DICT_START", <<>>), LexTok("NAME", <<>>),
          LexTok("INT", <<1>>), LexTok("DICT_END", <<>>), LexTok("ARR_END", <<>>) >>,
       << LexTok("INT", <<3>>), LexTok("INT", <<0>>), LexTok("indirect", <<>>) >>,
       << LexTok("xref", <<>>), LexTok("INT", <<0>>), LexTok("INT", <<1>>),
          LexTok("INT", <<9>>), LexTok("INT", <<0>>), LexTok("xref_inuse", <<>>) >>,
       << LexTok("INT", <<3>>), LexTok("INT", <<0>>), LexTok("obj", <<>>),
          LexTok("NAME", <<>>), LexTok("endstream", <<>>), LexTok("endobj", <<>>) >>,
       << LexTok("trailer", <<>>), LexTok("NAME", <<>>), LexTok("EOF", <<>>) >> >>

RECURSIVE ItemsHeap(_)
ItemsHeap(choice) ==
    IF choice = <<>> THEN <<>>
    ELSE ItemTypes[Head(choice)] \o ItemsHeap(Tail(choice))

\* The heaps of the flat token lists: up to MaxItems groups in a row.
TokenHeaps ==
    { ItemsHeap(c) : c \in UNION { [1..n -> DOMAIN ItemTypes] : n \in 1..MaxItems } }

\* tokens[k], counted from 0.
HTok(heap, tokens, k) ==
    heap[tokens[k + 1]]

CTRet(ok, heap, toks, idx) ==
    [ok |-> ok, heap |-> heap, toks |-> toks, idx |-> idx]

\* "return ([tokens[startpos]], startpos)".
CTSame(heap, tokens, startpos) ==
    CTRet(TRUE, heap, <<tokens[startpos + 1]>>, startpos)

CTFail(heap) ==
    CTRet(FALSE, heap, <<>>, 0)

\* The index at which a loop "for i in range(from, endpos)" that counts
\* Open up and Close down from cnt stops: where the count reaches zero, or
\* the last index.
RECURSIVE MatchEnd(_, _, _, _, _, _, _)
MatchEnd(heap, tokens, i, endpos, cnt, Open, Close) ==
    LET ty == HTok(heap, tokens, i).type
        c == IF ty = Open THEN cnt + 1 ELSE IF ty = Close THEN cnt - 1 ELSE cnt
    IN  IF c = 0 \/ i + 1 >= endpos THEN [i |-> i, cnt |-> c]
        ELSE MatchEnd(heap, tokens, i + 1, endpos, c, Open, Close)

\* The first index in from..endpos-1 whose token has the type, or -1.
FirstOfType(heap, tokens, from, endpos, type) ==
    LET hits == { i \in from..(endpos - 1) : HTok(heap, tokens, i).type = type }
    IN  IF hits = {} THEN -1 ELSE CHOOSE i \in hits : \A h \in hits : i <= h

\* Lines 260-299 (Xref).  The rows become the value of the xref token itself.
CTXref(heap, tokens, startpos, endpos) ==
    IF HTok(heap, tokens, startpos).type # "xref" THEN CTSame(heap, tokens, startpos)
    ELSE IF startpos + 2 >= Len(tokens) THEN CTFail(heap)
    ELSE IF HTok(heap, tokens, startpos + 1).type # "INT" THEN CTFail(heap)
    ELSE IF HTok(heap, tokens, startpos + 2).type # "INT" THEN CTFail(heap)
    ELSE LET firstobj == HTok(heap, tokens, startpos + 1).value[1]
             numobjs == HTok(heap, tokens, startpos + 2).value[1]
             firstxref == startpos + 3
             rowok(c) == LET i == firstxref + 3 * c
                         IN  /\ i + 2 < Len(tokens)
                             /\ HTok(heap, tokens, i).type = "INT"
                             /\ HTok(heap, tokens, i + 1).type = "INT"
                             /\ HTok(heap, tokens, i + 2).type \in {"xref_inuse", "xref_free"}
             objs == [c \in 1..numobjs |->
                         LET i == firstxref + 3 * (c - 1)
                         IN  << firstobj + (c - 1), HTok(heap, tokens, i).value[1],
                                HTok(heap, tokens, i + 1).value[1],
                                HTok(heap, tokens, i + 2).type >>]
         IN  IF numobjs < 1 THEN CTFail(heap)
             ELSE IF \E c \in 0..(numobjs - 1) : ~rowok(c) THEN CTFail(heap)
             ELSE CTRet(TRUE, [heap EXCEPT ![tokens[startpos + 1]].value = objs],
                        <<tokens[startpos + 1]>>, firstxref + 3 * (numobjs - 1) + 2)

\* Lines 302-314 (Indirect).  A new token is a new heap object.
CTIndirect(heap, tokens, startpos, endpos) ==
    IF /\ startpos + 2 < endpos
       /\ HTok(heap, tokens, startpos).type = "INT"
       /\ HTok(heap, tokens, startpos + 1).type = "INT"
       /\ HTok(heap, tokens, startpos + 2).type = "indirect"
    THEN CTRet(TRUE,
               Append(heap, LexTok("INDIRECT", << HTok(heap, tokens, startpos).value[1],
                                                  HTok(heap, tokens, startpos + 1).value[1] >>)),
               <<Len(heap) + 1>>, startpos + 2)
    ELSE CTSame(heap, tokens, startpos)

\* Lines 413-418 (Stream).
CTStream(heap, tokens, startpos, endpos) ==
    IF HTok(heap, tokens, startpos).type = "endstream" THEN CTRet(TRUE, heap, <<>>, startpos)
    ELSE CTSame(heap, tokens, startpos)

\* Lines 421-448 (Object).
CTObject(heap, tokens, startpos, endpos) ==
    IF startpos + 2 >= endpos THEN CTSame(heap, tokens, startpos)
    ELSE IF HTok(heap, tokens, startpos).type # "INT" THEN CTSame(heap, tokens, startpos)
    ELSE IF HTok(heap, tokens, startpos + 1).type # "INT" THEN CTSame(heap, tokens, startpos)
    ELSE IF HTok(heap, tokens, startpos + 2).type # "obj" THEN CTSame(heap, tokens, startpos)
    ELSE LET e == FirstOfType(heap, tokens, startpos + 2, endpos, "endobj")
             i == IF e = -1 THEN endpos - 1 ELSE e
         IN  CTRet(TRUE,
                   Append(heap, LexTok("OBJECT", << HTok(heap, tokens, startpos).value[1],
                                                    HTok(heap, tokens, startpos + 1).value[1],
                                                    TokSlice(tokens, startpos + 3, i) >>)),
                   <<Len(heap) + 1>>, i)

\* Lines 451-469 (Trailer).
CTTrailer(heap, tokens, startpos, endpos) ==
    IF HTok(heap, tokens, startpos).type # "trailer" THEN CTSame(heap, tokens, startpos)
    ELSE LET e == FirstOfType(heap, tokens, startpos + 1, endpos, "EOF")
         IN  IF e = -1 THEN CTFail(heap)
             ELSE CTRet(TRUE, Append(heap, LexTok("TRAILER", TokSlice(tokens, startpos + 1, e + 1))),
                        <<Len(heap) + 1>>, e)

\* The 2-tuples of line 401.
RECURSIVE PairUp(_)
PairUp(toks) ==
    IF Len(toks) < 2 THEN <<>>
    ELSE << <<toks[1], toks[2]>> >> \o PairUp(SubSeq(toks, 3, Len(toks)))

RECURSIVE CTDictionary(_, _, _, _)
RECURSIVE DictEntries(_, _, _, _)
RECURSIVE CTArray(_, _, _, _)
RECURSIVE CTApply(_, _, _, _, _)
RECURSIVE TokenIterator(_, _, _, _, _, _)
RECURSIVE CTPasses(_, _, _)

\* The loop of lines 377-385 over the tokens of one dictionary.
DictEntries(heap, toks, i, nexttoks) ==
    IF i >= Len(toks) - 1 THEN CTRet(TRUE, heap, nexttoks, i)
    ELSE LET r == CTDictionary(heap, toks, i, Len(toks) - 1)
         IN  IF ~r.ok THEN r
             ELSE DictEntries(r.heap, toks, r.idx + 1, nexttoks \o r.toks)

\* Lines 348-410 (Dictionary).  The DICT_START token itself is turned into the DICT token.
CTDictionary(heap, tokens, startpos, endpos) ==
    IF HTok(heap, tokens, startpos).type # "DICT_START" THEN CTSame(heap, tokens, startpos)
    ELSE LET m == MatchEnd(heap, tokens, startpos, endpos, 0, "DICT_START", "DICT_END")
         IN  IF m.cnt # 0 THEN CTFail(heap)
             ELSE LET toks == TokSlice(tokens, startpos, m.i + 1)
                      r == DictEntries(heap, toks, 1, <<>>)
                  IN  IF ~r.ok THEN r
                      ELSE LET odd == Len(r.toks) % 2 # 0
                               h1 == IF odd THEN Append(r.heap, LexTok("NULL", <<>>)) ELSE r.heap
                               nexttoks == IF odd THEN Append(r.toks, Len(h1)) ELSE r.toks
                               self == tokens[startpos + 1]
                           IN  CTRet(TRUE,
                                     [h1 EXCEPT ![self] = LexTok("DICT", PairUp(nexttoks))],
                                     <<self>>, m.i)

\* Lines 317-345 (Array).
CTArray(heap, tokens, startpos, endpos) ==
    IF HTok(heap, tokens, startpos).type # "ARR_START" THEN CTSame(heap, tokens, startpos)
    ELSE LET m == MatchEnd(heap, tokens, startpos, endpos, 0, "ARR_START", "ARR_END")
             arrval == TokSlice(tokens, startpos + 1, m.i)
             r == CTPasses(heap, arrval, 1)
         IN  IF ~r.ok THEN r
             ELSE CTRet(TRUE, Append(r.heap, LexTok("ARR", r.toks)), <<Len(r.heap) + 1>>, m.i)

PassNames ==
    <<"Xref", "Indirect", "Array", "Dictionary", "Stream", "Object", "Trailer">>

CTApply(func, heap, tokens, startpos, endpos) ==
    CASE func = "Xref" -> CTXref(heap, tokens, startpos, endpos)
      [] func = "Indirect" -> CTIndirect(heap, tokens, startpos, endpos)
      [] func = "Array" -> CTArray(heap, tokens, startpos, endpos)
      [] func = "Dictionary" -> CTDictionary(heap, tokens, startpos, endpos)
      [] func = "Stream" -> CTStream(heap, tokens, startpos, endpos)
      [] func = "Object" -> CTObject(heap, tokens, startpos, endpos)
      [] func = "Trailer" -> CTTrailer(heap, tokens, startpos, endpos)

\* Lines 471-510 (TokenIterator), from index i with the tokens collected so far.
TokenIterator(heap, tokens, i, endpos, func, ret) ==
    IF i >= endpos THEN CTRet(TRUE, heap, ret, i)
    ELSE LET r == CTApply(func, heap, tokens, i, endpos)
         IN  IF ~r.ok THEN r
             ELSE TokenIterator(r.heap, tokens, r.idx + 1, endpos, func, ret \o r.toks)

\* Lines 248-257: the passes from the n-th on.
CTPasses(heap, tokens, n) ==
    IF n > Len(PassNames) THEN CTRet(TRUE, heap, tokens, 0)
    ELSE LET r == TokenIterator(heap, tokens, 0, Len(tokens), PassNames[n], <<>>)
         IN  IF ~r.ok THEN r
             ELSE CTPasses(r.heap, r.toks, n + 1)

ConsolidateTokens(heap, tokens) ==
    CTPasses(heap, tokens, 1)

\* The type and value of a token with the tokens inside it written out.
RECURSIVE Snapshot(_, _)
Snapshot(heap, id) ==
    LET t == heap[id]
        All(ids) == [k \in DOMAIN ids |-> Snapshot(heap, ids[k])]
    IN  CASE t.type \in {"ARR", "TRAILER"} -> LexTok(t.type, All(t.value))
          [] t.type = "DICT" ->
                LexTok(t.type, [k \in DOMAIN t.value |-> All(t.value[k])])
          [] t.type = "OBJECT" ->
                LexTok(t.type, <<t.value[1], t.value[2], All(t.value[3])>>)
          [] OTHER -> t

ConsolidateInit ==
    /\ OthersIdle
    /\ fin \in { [fn |-> "ConsolidateTokens", heap |-> h, before |-> h,
                  tokens |-> [k \in DOMAIN h |-> k]] : h \in TokenHeaps }
    /\ fout = <<>>
    /\ fpc = "call"

\* ConsolidateTokens(tokens) on the same list object, a first and a second
\* time; fin.before keeps the tokens as they were before the first call.
CallConsolidateTokens ==
    /\ fpc \in {"call", "once"}
    /\ fin.fn = "ConsolidateTokens"
    /\ LET r == ConsolidateTokens(fin.heap, fin.tokens)
       IN  /\ fin' = [fin EXCEPT !.heap = r.heap]
           /\ fout' = IF r.ok THEN Append(fout, [k \in DOMAIN r.toks |-> Snapshot(r.heap, r.toks[k])])
                      ELSE fout
           /\ fpc' = IF ~r.ok THEN "raised" ELSE IF fpc = "call" THEN "once" ELSE "twice"
    /\ UNCHANGED <<xvars, cvars, lvars, rvars>>

ConsolidateNext ==
    CallConsolidateTokens

SpecConsolidate ==
    ConsolidateInit /\ [][ConsolidateNext]_vars

\* C20: ConsolidateTokens is pure with respect to its input list: after it
\* returns, every token of the input list has the type and value it had
\* before the call, and consolidating the same list a second time yields a
\* result equal to the first.
C20_ConsolidatePure ==
    (fin.fn = "ConsolidateTokens" /\ fpc \in {"once", "twice"}) =>
        /\ \A id \in DOMAIN fin.before :
              /\ fin.heap[id].type = fin.before[id].type
              /\ fin.heap[id].value = fin.before[id].value
        /\ fpc = "twice" => fout[1] = fout[2]

\* C22: a Tj of one character delivers its 'glyph draw' at the position
\* computed from Tm as it was before the advance, and leaves as Tm the Tm
\* before it with the x translation moved by
\* ((w/1000) * Tfs + Tc + Tw) * (Tz/100), w the width of the glyph.
C22_GlyphAdvance ==
    [][(/\ rpc = "tokens"
        /\ ntok' = ntok + 1
        /\ tok'.type = "Tj"
        /\ tok'.value[1].type = "LIT"
        /\ Len(tok'.value[1].value) = 1
        /\ fault' = "none")
        => LET T == TopT(stack, texts)
               S == TopS(stack)
               w == GlyphWidth(tok'.value[1].value[1])
               tx == (((w * T.Tfs[1]) \div 1000 + T.Tc + T.Tw) * T.Tz) \div 100
               pos == Mat3x3_mul(Mat3x3_mul(Mat3x3(T.Tfs[1] * T.Tz, 0, 0, T.Tfs[1], 0, T.Tr), T.Tm), S.cm)
           IN  /\ Len(events') = Len(events) + 1
               /\ events'[Len(events')].kind = "glyph draw"
               /\ events'[Len(events')].args[1] = pos.E
               /\ TopT(stack', texts').Tm = [T.Tm EXCEPT !.E = @ + tx]]_vars

\* C23: inside a text object TD tx ty completes without an exception, sets
\* TL to -ty, and leaves Tm = Tlm = translate(tx, ty) * Tlm, Tlm on the right
\* being the line matrix before the operator.
C23_TDSetsLeading ==
    [][(rpc = "tokens" /\ ntok' = ntok + 1 /\ tok'.type = "TD" /\ inText)
        => LET T == TopT(stack, texts)
               T2 == TopT(stack', texts')
               m == Mat3x3_mul(Mat3x3(1, 0, 0, 1, tok'.value[1].value, tok'.value[2].value), T.Tlm)
           IN  /\ fault' = "none"
               /\ T2.TL = 0 - tok'.value[2].value
               /\ T2.Tm = m
               /\ T2.Tlm = m]_vars

\* C29: in every reachable text state Tm and Tlm hold the same matrix or are
\* both absent: the Tm operator, Td, T* and the advance after a glyph or a
\* TJ number assign both.
C29_TmEqualsTlm ==
    \A a \in DOMAIN texts : texts[a].Tm = texts[a].Tlm

\* After `10 20 Td (AB) Tj` the line matrix has moved with the advances of
\* A and B (6 and 12), away from the line start at x = 10.
C29_Witness ==
    /\ doc.content[1] = "line"
    /\ rpc = "tokens"
    /\ ntok = 6
    /\ fault = "none"
    /\ TopT(stack, texts).Tlm = Mat3x3(1, 0, 0, 1, 28, 20)
    /\ TopT(stack, texts).Tm = Mat3x3(1, 0, 0, 1, 28, 20)

\* C30: the object cache is keyed by (object-id, generation) alone: once a
\* key has been resolved through one typed getter, a later request for it
\* through any getter returns the record the first one built, and the later
\* getter's handler is not called.
C30_CacheKeyedByIdAlone ==
    [][\A k \in CacheKeys :
          (stored[k] >= 1 /\ ncalls' = ncalls + 1 /\ gret'.key = k)
              => /\ gret'.outcome = "hit"
                 /\ ~gret'.handled
                 /\ gret'.rec \in returned[k]
                 /\ returned'[k] = returned[k]
                 /\ Cardinality(returned[k]) = 1
                 /\ stored'[k] = 1]_vars

\* A record that a stream was stored for comes back to the getter whose
\* handler _ParseColorSpace raises whenever it is called.
C30_Witness ==
    /\ gret.outcome = "hit"
    /\ gret.handler = "_ParseColorSpace"
    /\ ~gret.handled
    /\ stored[gret.key] = 1
    /\ returned[gret.key] = {gret.rec}

\* C24: a path-construction operator (m, l, c, v, y, h, re) or a fill or
\* stroke operator (S, s, f, F, f*, B, B*, b, b*, n) is processed without an
\* exception, calls no callback and leaves the text state and the CTM as
\* they were.
C24_PathOperatorsAccepted ==
    [][(/\ rpc = "tokens"
        /\ ntok' = ntok + 1
        /\ tok'.type \in {"m", "l", "c", "v", "y", "h", "re",
                          "S", "s", "f", "F", "fstar", "B", "Bstar", "b", "bstar", "n"})
        => /\ fault' = "none"
           /\ events' = events
           /\ texts' = texts
           /\ CTM(TopS(stack')) = CTM(TopS(stack))]_vars

\* C25: the xref chain walk of Initialize ends: a pass parses an offset that
\* was not parsed before, the walk stops exactly when the next offset is 0
\* or already in contents (a Prev cycle, or the fallback to the section's own
\* startxref), and the loop is left eventually.
C25_WalkTerminates ==
    /\ [][ipc = "walk" => /\ offset \notin contents
                          /\ offset \in contents'
                          /\ (ipc' # "walk") <=> (offset' = 0 \/ offset' \in contents')]_vars
    /\ <>(ipc # "walk")

\* Two sections were parsed and the older one's Prev points back to the
\* newer one.
C25_Witness ==
    /\ ipc = "map"
    /\ prevx # None
    /\ rootxref # prevx
    /\ file.prev[prevx] = rootxref
    /\ offset = rootxref

----------------------------------------------------------------------------
(* Page lookup: PDF.GetPage, __init__.py 81-100, over PageTreeNode.DFSPages  *)

MaxLeaves == 3

\* The Kids arrays that hold the pages of o from left to right, nested at
\* most d levels deep.
RECURSIVE KidsOver(_, _)
KidsOver(o, d) ==
    IF o = <<>> THEN {<<>>}
    ELSE UNION { { <<first>> \o rest :
                     first \in (IF k = 1 THEN {Leaf(o[1])} ELSE {})
                               \cup (IF d > 0 THEN { Node(kids) : kids \in KidsOver(SubSeq(o, 1, k), d - 1) }
                                     ELSE {}),
                     rest \in KidsOver(SubSeq(o, k + 1, Len(o)), d) } : k \in 1..Len(o) }

\* Page trees with the left-to-right order of their pages.
PageTrees ==
    UNION { { [tree |-> Node(kids), order |-> o] : kids \in KidsOver(o, 2) } :
              o \in { o \in UNION { [1..n -> 1..MaxLeaves] : n \in 0..MaxLeaves } :
                        \A i, j \in DOMAIN o : i # j => o[i] # o[j] } }

\* A lookup that takes the page number as an index counted from 0.
GetPageZeroBased(tree, page) ==
    LET dfs == DFSPagesLeavesFirst(tree)
    IN  IF page < 0 THEN [ok |-> FALSE, pages |-> dfs, val |-> <<>>, err |-> "ValueError"]
        ELSE IF page >= Len(dfs) THEN [ok |-> FALSE, pages |-> dfs, val |-> <<>>, err |-> "ValueError"]
        ELSE [ok |-> TRUE, pages |-> dfs, val |-> <<dfs[page + 1]>>, err |-> "none"]

\* PDF.GetPage for an int page, lines 86-94.
GetPage(tree, page) ==
    LET dfs == DFSPages(tree)
    IN  IF page < 1 THEN [ok |-> FALSE, pages |-> dfs, val |-> <<>>, err |-> "ValueError"]
        ELSE IF page > Len(dfs) THEN [ok |-> FALSE, pages |-> dfs, val |-> <<>>, err |-> "ValueError"]
        ELSE [ok |-> TRUE, pages |-> dfs, val |-> <<dfs[page]>>, err |-> "none"]

GetPageInit ==
    /\ OthersIdle
    /\ fin \in { [fn |-> "GetPage", tree |-> t.tree, order |-> t.order, page |-> n] :
                    t \in PageTrees, n \in (-1)..(MaxLeaves + 1) }
    /\ fout = <<>>
    /\ fpc = "call"

CallGetPage ==
    /\ fpc = "call"
    /\ fin.fn = "GetPage"
    /\ LET r == GetPage(fin.tree, fin.page)
       IN  /\ fout' = <<[pages |-> r.pages, val |-> r.val, err |-> r.err]>>
           /\ fpc' = IF r.ok THEN "returned" ELSE "raised"
    /\ UNCHANGED fin
    /\ UNCHANGED <<xvars, cvars, lvars, rvars>>

SpecGetPage ==
    GetPageInit /\ [][CallGetPage]_vars

\* C21: the depth-first enumeration of a page tree holds every leaf page
\* once, in the left-to-right order of the Kids arrays, and no interior node;
\* GetPage(n) returns the n-th page of it for 1 <= n <= page count and raises
\* ValueError for n < 1 and n > page count.
C21_GetPageNth ==
    (fpc \in {"returned", "raised"} /\ fin.fn = "GetPage") =>
        /\ fout[1].pages = fin.order
        /\ IF 1 <= fin.page /\ fin.page <= Len(fin.order)
           THEN fpc = "returned" /\ fout[1].val = <<fin.order[fin.page]>>
           ELSE fpc = "raised" /\ fout[1].err = "ValueError"

\* The second of three pages, the first of them under a nested Pages node,
\* has been looked up.
C21_Witness ==
    /\ fpc = "returned"
    /\ fin.fn = "GetPage"
    /\ Len(fin.order) = 3
    /\ fin.page = 2
    /\ fin.tree.Kids[1].Type = "Pages"
    /\ fout[1].val = <<fin.order[2]>>

----------------------------------------------------------------------------
(* PDFTokenizer.FindRootObject and GetRootObject, parser/__init__.py 439-470 *)

MaxChain == 3

\* The xref chain from pdf.rootxref along next, newest section first: each
\* section is a classic one (Root read from its trailer's dictionary) or an
\* xref stream (Root read from its own dictionary); a dictionary without
\* Root has None.
RootChains ==
    UNION { [1..n -> [kind : {"XRef", "XRefStream"}, root : {None} \cup ObjIds]] : n \in 0..MaxChain }

\* Lines 446-457: one pass of `while x != None` for the section at place x
\* of the chain (None past its end).  No statement of the loop assigns x.
FindRootObjectPass(chain, x) ==
    IF x = None THEN [done |-> TRUE, val |-> None, x |-> x]
    ELSE IF chain[x].root # None THEN [done |-> TRUE, val |-> chain[x].root, x |-> x]
    ELSE [done |-> FALSE, val |-> None, x |-> x]

\* Line 444: x = self.pdf.rootxref.
FindRootInit ==
    /\ OthersIdle
    /\ fin \in { [fn |-> "FindRootObject", chain |-> c, x |-> IF c = <<>> THEN None ELSE 1] :
                    c \in RootChains }
    /\ fout = <<>>
    /\ fpc = "call"

FindRootObject ==
    /\ fpc = "call"
    /\ fin.fn = "FindRootObject"
    /\ LET r == FindRootObjectPass(fin.chain, fin.x)
       IN  /\ fin' = [fin EXCEPT !.x = r.x]
           /\ fout' = IF r.done THEN <<r.val>> ELSE fout
           /\ fpc' = IF r.done THEN "returned" ELSE "call"
    /\ UNCHANGED <<xvars, cvars, lvars, rvars>>

\* Lines 466-470: ValueError for None, else the catalog read at the
\* reference.
GetRootObject ==
    /\ fpc = "returned"
    /\ fin.fn = "FindRootObject"
    /\ fpc' = IF fout[1] = None THEN "raised" ELSE "catalog"
    /\ UNCHANGED <<fin, fout>>
    /\ UNCHANGED <<xvars, cvars, lvars, rvars>>

FindRootNext ==
    \/ FindRootObject
    \/ GetRootObject

SpecFindRoot ==
    FindRootInit /\ [][FindRootNext]_vars

\* The loop is sequential code: a pass that can run does run.
SpecFindRootLive ==
    FindRootInit /\ [][FindRootNext]_vars /\ WF_vars(FindRootNext)

\* The Root of the first section of the chain that has one, None without.
FirstRoot(chain) ==
    LET I == { i \in 1..Len(chain) : chain[i].root # None }
    IN  IF I = {} THEN None ELSE chain[Min(I)].root

\* C26: FindRootObject terminates on every xref chain and returns the Root
\* of the first section in walk order that has a Root entry, None when no
\* section has one; GetRootObject then reads the catalog at that reference.
C26_FindRootTerminates ==
    /\ [](fin.fn = "FindRootObject" /\ fpc \in {"returned", "catalog", "raised"}
            => fout = <<FirstRoot(fin.chain)>>)
    /\ <>(fin.fn = "FindRootObject" => fpc # "call")

----------------------------------------------------------------------------
(* Classic xref sections with subsections: ParseXRef_plaintext,              *)
(* parser/__init__.py 246-273, and TokenHelpers.Convert_XRef, 1246-1258      *)

MaxSubsections == 2

MaxSubRows == 2

\* A subsection: its first object id and its rows, each with a generation
\* and the letter n or f.  The first subsection starts at id 0 or 1, the
\* second at 3 or 5, so that no id comes twice.
SubsectionRows ==
    UNION { [1..n -> [generation : Generations, inuse : BOOLEAN]] : n \in 1..MaxSubRows }

XRefSections ==
    UNION { { ss \in [1..n -> [first : {0, 1, 3, 5}, rows : SubsectionRows]] :
                \A k \in 1..n : ss[k].first \in (IF k = 1 THEN {0, 1} ELSE {3, 5}) } :
            n \in 1..MaxSubsections }

\* The offset written in row j of subsection k.
RowOffset(k, j) ==
    100 * k + 10 * j

RECURSIVE RowTokens(_, _, _)
\* The tokens of the rows of subsection k from row j on: "offset gen n".
RowTokens(ss, k, j) ==
    IF j > Len(ss[k].rows) THEN <<>>
    ELSE << LexTok("INT", <<RowOffset(k, j)>>), LexTok("INT", <<ss[k].rows[j].generation>>),
            LexTok(IF ss[k].rows[j].inuse THEN "xref_inuse" ELSE "xref_free", <<>>) >>
         \o RowTokens(ss, k, j + 1)

RECURSIVE SubsectionTokens(_, _)
\* The tokens of the subsections from the k-th on: "first count" and rows.
SubsectionTokens(ss, k) ==
    IF k > Len(ss) THEN <<>>
    ELSE << LexTok("INT", <<ss[k].first>>), LexTok("INT", <<Len(ss[k].rows)>>) >>
         \o RowTokens(ss, k, 1) \o SubsectionTokens(ss, k + 1)

\* Lines 250-269: the lines from the offset up to "trailer", tokenized.
XRefTokens(ss) ==
    <<LexTok("xref", <<>>)>> \o SubsectionTokens(ss, 1)

\* Convert_XRef on the consolidated tokens: the rows in the value of
\* toks[0], and nothing else of toks.
Convert_XRefTokens(heap, toks) ==
    LET v == heap[toks[1]].value
    IN  [k \in DOMAIN v |->
            IF v[k][4] = "xref_inuse" THEN XRefRowUsed(v[k][1], v[k][2], v[k][3])
            ELSE XRefRowFree(v[k][1], v[k][3])]

\* Lines 269-273, on the tokens of the lines read.
ParseXRef_plaintext(heap) ==
    LET r == ConsolidateTokens(heap, [k \in DOMAIN heap |-> k])
    IN  IF ~r.ok THEN [ok |-> FALSE, val |-> <<>>]
        ELSE [ok |-> TRUE, val |-> Convert_XRefTokens(r.heap, r.toks)]

ParseXRefInit ==
    /\ OthersIdle
    /\ fin \in { [fn |-> "ParseXRef", section |-> ss, tokens |-> XRefTokens(ss)] :
                    ss \in XRefSections }
    /\ fout = <<>>
    /\ fpc = "call"

\* ParseXRef on the section, and the object map MakeXRefMap makes of it.
CallParseXRef ==
    /\ fpc = "call"
    /\ fin.fn = "ParseXRef"
    /\ \E r \in {ParseXRef_plaintext(fin.tokens)} :
           /\ fout' = IF r.ok THEN <<[offsets |-> r.val, objmap |-> AddRows(EmptyMap, r.val)]>>
                      ELSE fout
           /\ fpc' = IF r.ok THEN "returned" ELSE "raised"
    /\ UNCHANGED fin
    /\ UNCHANGED <<xvars, cvars, lvars, rvars>>

SpecParseXRef ==
    ParseXRefInit /\ [][CallParseXRef]_vars

\* The (object-id, generation) keys of the in-use rows of the section.
InUseKeys(ss) ==
    UNION { { <<ss[k].first + j - 1, ss[k].rows[j].generation>> :
                j \in { i \in DOMAIN ss[k].rows : ss[k].rows[i].inuse } } : k \in DOMAIN ss }

\* C27: for a classic xref section of several subsections, every in-use
\* row of every subsection gives an object-map entry whose object id is the
\* subsection's first id plus the row's index, with the row's offset and
\* generation, and free rows give no entry.
C27_SubsectionRows ==
    (fin.fn = "ParseXRef" /\ fpc # "call") =>
        /\ fpc = "returned"
        /\ DOMAIN fout[1].objmap = InUseKeys(fin.section)
        /\ \A k \in DOMAIN fin.section : \A j \in DOMAIN fin.section[k].rows :
              fin.section[k].rows[j].inuse =>
                  fout[1].objmap[<<fin.section[k].first + j - 1,
                                   fin.section[k].rows[j].generation>>] = RowOffset(k, j)

====
